---- MODULE Spec2Model ----
(***************************************************************************)
(* Operator-overloading runtime (src/src/shim/shim.js): the registry of    *)
(* operator sets, the permission scopes and the dispatch of unary and      *)
(* binary operators, as a state machine whose actions are the exported     *)
(* entry points Operators, _declareOperators, _withOperatorsFrom, _binary  *)
(* and _unary.                                                             *)
(***************************************************************************)
EXTENDS Integers, Sequences, FiniteSets, TLC

VARIABLES OperatorCounter, registry, scopes, parents, last, tableObjects,
          decoratorOperators, target, pass, traversal

vars == <<OperatorCounter, registry, scopes, parents, last, tableObjects,
          decoratorOperators, target, pass, traversal>>

\* the state outside the registry, the scopes and the call in progress
others == <<decoratorOperators, target, pass, traversal>>

\* the state of the runtime library
shim == <<OperatorCounter, registry, scopes, parents, last, tableObjects,
          decoratorOperators, target>>

(***************************************************************************)
(* Bounds of the model.                                                    *)
(***************************************************************************)
\* registrations attempted after the three built-in sets
MaxTypes == 2
\* scope objects created by _declareOperators
MaxScopes == 2
\* cross-type tables passed to one Operators(...) call
MaxTables == 1
\* the most methods decorated with Operators.define in one class
MaxDefines == 2
\* the most statements and braces between the braces of a transformed program
MaxTokens == 5
\* classes listed in one _withOperatorsFrom call
MaxAdditions == 2

(***************************************************************************)
(* JavaScript values.  A value is a record [t, n, s, id]: t is the kind,   *)
(* n the numeric payload (the ordinal of the operator set for an instance  *)
(* of an Operators(...) class), s the string payload as a sequence of      *)
(* UTF-16 code units, id the object identity (0 for primitives).           *)
(***************************************************************************)
Val(t, n, s, id) == [t |-> t, n |-> n, s |-> s, id |-> id]

Num(n) == Val("number", n, <<>>, 0)
NaN == Val("NaN", 0, <<>>, 0)
Big(n) == Val("bigint", n, <<>>, 0)
Str(s) == Val("string", 0, s, 0)
Bool(b) == Val("boolean", IF b THEN 1 ELSE 0, <<>>, 0)
Null == Val("null", 0, <<>>, 0)
Undefined == Val("undefined", 0, <<>>, 0)
\* Object(1), Object(1n), Object("1"): wrapper objects
WNum(n, id) == Val("Number", n, <<>>, id)
WBig(n, id) == Val("BigInt", n, <<>>, id)
WStr(s, id) == Val("String", 0, s, id)
\* an ordinary object: no operator set, inherits Object.prototype.valueOf
PlainObject(id) == Val("object", 0, <<>>, id)
\* new C() for C = Operators(...) whose operator set has ordinal c
Instance(c, id) == Val("instance", c, <<>>, id)
\* the value an operator function supplied by the user returned
UserResult == Val("result", 0, <<>>, 0)
NoValue == Val("none", 0, <<>>, 0)

\* code units
S_1 == <<49>>
S_2 == <<50>>
S_10 == <<49, 48>>
S_ab == <<97, 98>>
S_NaN == <<78, 97, 78>>
S_true == <<116, 114, 117, 101>>
S_false == <<102, 97, 108, 115, 101>>
S_null == <<110, 117, 108, 108>>
S_undefined == <<117, 110, 100, 101, 102, 105, 110, 101, 100>>
\* "[object Object]"
S_object == <<91, 111, 98, 106, 101, 99, 116, 32, 79, 98, 106, 101, 99, 116, 93>>

IsDigits(s) == \A i \in DOMAIN s : s[i] >= 48 /\ s[i] <= 57

RECURSIVE DigitsValue(_)
DigitsValue(s) ==
  IF s = <<>> THEN 0
  ELSE 10 * DigitsValue(SubSeq(s, 1, Len(s) - 1)) + (s[Len(s)] - 48)

RECURSIVE NatDigits(_)
NatDigits(n) ==
  IF n < 10 THEN <<48 + n>> ELSE NatDigits(n \div 10) \o <<48 + (n % 10)>>

IntString(n) == IF n < 0 THEN <<45>> \o NatDigits(0 - n) ELSE NatDigits(n)

\* StringToNumber on the strings of the model: "", decimal integers, else NaN
StringToNumber(s) ==
  IF s = <<>> THEN Num(0)
  ELSE IF IsDigits(s) THEN Num(DigitsValue(s))
  ELSE IF Len(s) > 1 /\ s[1] = 45 /\ IsDigits(Tail(s)) THEN Num(0 - DigitsValue(Tail(s)))
  ELSE NaN

typeof(x) ==
  CASE x.t \in {"number", "NaN"} -> "number"
    [] x.t = "bigint" -> "bigint"
    [] x.t = "string" -> "string"
    [] x.t = "boolean" -> "boolean"
    [] x.t = "undefined" -> "undefined"
    [] OTHER -> "object"

\* the primitive a wrapper object holds
Unwrap(x) ==
  CASE x.t = "Number" -> Num(x.n)
    [] x.t = "BigInt" -> Big(x.n)
    [] x.t = "String" -> Str(x.s)
    [] OTHER -> x

\* the language's ToPrimitive: wrappers give their primitive, other objects
\* fall back to Object.prototype.toString
JSToPrimitive(x) ==
  CASE x.t \in {"Number", "BigInt", "String"} -> Unwrap(x)
    [] x.t \in {"object", "instance", "result"} -> Str(S_object)
    [] OTHER -> x

\* ToNumeric of a primitive
JSToNumeric(p) ==
  CASE p.t \in {"number", "NaN", "bigint"} -> p
    [] p.t = "string" -> StringToNumber(p.s)
    [] p.t = "boolean" -> Num(p.n)
    [] p.t = "null" -> Num(0)
    [] OTHER -> NaN

\* ToString of a primitive
JSToString(p) ==
  CASE p.t = "string" -> p.s
    [] p.t \in {"number", "bigint"} -> IntString(p.n)
    [] p.t = "NaN" -> S_NaN
    [] p.t = "boolean" -> IF p.n = 1 THEN S_true ELSE S_false
    [] p.t = "null" -> S_null
    [] OTHER -> S_undefined

RECURSIVE StringLess(_, _)
StringLess(s, u) ==
  IF u = <<>> THEN FALSE
  ELSE IF s = <<>> THEN TRUE
  ELSE IF s[1] # u[1] THEN s[1] < u[1]
  ELSE StringLess(Tail(s), Tail(u))

(***************************************************************************)
(* Outcome of a call: a returned value or a thrown TypeError, with the     *)
(* sequence of events (permission checks, table lookups, invocations of    *)
(* table functions) the call performed.                                    *)
(***************************************************************************)
Return(v, tr) == [kind |-> "return", val |-> v, err |-> "", trace |-> tr]
Throw(e, tr) == [kind |-> "throw", val |-> NoValue, err |-> e, trace |-> tr]

\* every error of the model is a JavaScript TypeError; the name is the throw site
ErrNative == "TypeError"
ErrNotPermitted == "OperatorNotPermitted"
ErrNoOverload == "NoOverloadDefined"
ErrNotOverloadable == "NotOverloadable"

(***************************************************************************)
(* identityOperators: the built-in operators of the language, which back   *)
(* the operator tables of Number, BigInt and String.                       *)
(***************************************************************************)
JSType(x) ==
  CASE x.t \in {"number", "NaN"} -> "Number"
    [] x.t = "bigint" -> "BigInt"
    [] x.t = "string" -> "String"
    [] x.t = "boolean" -> "Boolean"
    [] x.t = "null" -> "Null"
    [] x.t = "undefined" -> "Undefined"
    [] OTHER -> "Object"

\* x == y of the language (IsLooselyEqual)
RECURSIVE LooseEq(_, _)
LooseEq(x, y) ==
  LET tx == JSType(x)
      ty == JSType(y)
  IN  CASE tx = ty -> IF x.t = "NaN" THEN FALSE ELSE x = y
        [] tx \in {"Null", "Undefined"} /\ ty \in {"Null", "Undefined"} -> TRUE
        [] tx = "Number" /\ ty = "String" -> LooseEq(x, StringToNumber(y.s))
        [] tx = "String" /\ ty = "Number" -> LooseEq(StringToNumber(x.s), y)
        [] tx = "BigInt" /\ ty = "String" ->
             LET n == StringToNumber(y.s) IN n.t = "number" /\ n.n = x.n
        [] tx = "String" /\ ty = "BigInt" ->
             LET n == StringToNumber(x.s) IN n.t = "number" /\ n.n = y.n
        [] tx = "Boolean" -> LooseEq(Num(x.n), y)
        [] ty = "Boolean" -> LooseEq(x, Num(y.n))
        [] tx = "Object" /\ ty \in {"String", "Number", "BigInt"} ->
             LooseEq(JSToPrimitive(x), y)
        [] ty = "Object" /\ tx \in {"String", "Number", "BigInt"} ->
             LooseEq(x, JSToPrimitive(y))
        [] tx \in {"Number", "BigInt"} /\ ty \in {"Number", "BigInt"} ->
             x.t # "NaN" /\ y.t # "NaN" /\ x.n = y.n
        [] OTHER -> FALSE

\* x < y of the language (IsLessThan, undefined read as false)
Less(x, y) ==
  LET px == JSToPrimitive(x)
      py == JSToPrimitive(y)
      nx == JSToNumeric(px)
      ny == JSToNumeric(py)
  IN  IF px.t = "string" /\ py.t = "string" THEN StringLess(px.s, py.s)
      ELSE IF nx.t = "NaN" \/ ny.t = "NaN" THEN FALSE
      ELSE nx.n < ny.n

\* x < y of the language is undefined: an operand is, or converts to, NaN
Unordered(x, y) ==
  LET px == JSToPrimitive(x)
      py == JSToPrimitive(y)
  IN  /\ ~(px.t = "string" /\ py.t = "string")
      /\ (JSToNumeric(px).t = "NaN" \/ JSToNumeric(py).t = "NaN")

\* x op y of the language for op one of <, >, <=, >=
NativeRelational(op, x, y) ==
  CASE op = "<" -> Less(x, y)
    [] op = ">" -> Less(y, x)
    [] op = "<=" -> ~Unordered(x, y) /\ ~Less(y, x)
    [] OTHER -> ~Unordered(x, y) /\ ~Less(x, y)

\* the binary operators whose arithmetic the model computes
ArithmeticOperators == {"-", "*"}

Arith(op, m, n) ==
  CASE op = "+" -> m + n
    [] op = "-" -> m - n
    [] op = "*" -> m * n

\* op applied to two numeric primitives: mixing BigInt and Number throws
NumericApply(op, nx, ny) ==
  IF (nx.t = "bigint") # (ny.t = "bigint") THEN Throw(ErrNative, <<>>)
  ELSE IF nx.t = "bigint" THEN Return(Big(Arith(op, nx.n, ny.n)), <<>>)
  ELSE IF nx.t = "NaN" \/ ny.t = "NaN" THEN Return(NaN, <<>>)
  ELSE Return(Num(Arith(op, nx.n, ny.n)), <<>>)

\* identityOperators[op](x, y) for a binary op
NativeBinary(op, x, y) ==
  LET px == JSToPrimitive(x)
      py == JSToPrimitive(y)
  IN  CASE op = "==" -> Return(Bool(LooseEq(x, y)), <<>>)
        [] op = "<" -> Return(Bool(Less(x, y)), <<>>)
        [] op = "+" /\ (px.t = "string" \/ py.t = "string") ->
             Return(Str(JSToString(px) \o JSToString(py)), <<>>)
        [] OTHER -> NumericApply(op, JSToNumeric(px), JSToNumeric(py))

\* identityOperators[op](x) for a unary op
NativeUnary(op, x) ==
  LET n == JSToNumeric(JSToPrimitive(x))
      wrap(k) == IF n.t = "bigint" THEN Big(k) ELSE Num(k)
  IN  CASE op = "pos" -> IF n.t = "bigint" THEN Throw(ErrNative, <<>>) ELSE Return(n, <<>>)
        [] op = "~" -> Return(IF n.t = "NaN" THEN Num(-1) ELSE wrap(0 - n.n - 1), <<>>)
        [] n.t = "NaN" -> Return(NaN, <<>>)
        [] op = "neg" -> Return(wrap(0 - n.n), <<>>)
        [] op = "++" -> Return(wrap(n.n + 1), <<>>)
        [] OTHER -> Return(wrap(n.n - 1), <<>>)

(***************************************************************************)
(* Operator names and operator tables.  A table maps operator names to     *)
(* functions; a function is identified by where it comes from: the         *)
(* language (identityOperators) or the arg-th argument of the Operators    *)
(* call that registered the set owner.                                     *)
(***************************************************************************)
binaryOperators ==
  {"-", "*", "/", "%", "**", "&", "^", "|", "<<", ">>", ">>>", "==", "+", "<"}
unaryOperators == {"pos", "neg", "++", "--", "~"}
allOperators == binaryOperators \cup unaryOperators \cup {"[]", "[]="}
operatorSet == allOperators

IdentityFn == [kind |-> "identity", arg |-> 0]
UserFn(arg) == [kind |-> "user", arg |-> arg]

identityOperators == [k \in binaryOperators \cup unaryOperators |-> IdentityFn]

NoTables == [i \in {} |-> identityOperators]

\* OpenOperators is a Set for Number and BigInt and an Array for String
OpenSet(ops) == [isSet |-> TRUE, ops |-> ops]
OpenArray(ops) == [isSet |-> FALSE, ops |-> ops]

OpSet(counter, self, left, right, open) ==
  [OperatorCounter |-> counter,
   SelfOperatorDefinition |-> self,
   LeftOperatorDefinitions |-> left,
   RightOperatorDefinitions |-> right,
   OpenOperators |-> open]

NumberSet == OpSet(0, identityOperators, NoTables, NoTables, OpenSet(binaryOperators))
BigIntSet ==
  OpSet(1, identityOperators, [i \in {0} |-> identityOperators],
        [i \in {0} |-> identityOperators], OpenSet(binaryOperators))
\* a String set without tables for Number and BigInt
StringSetAlone ==
  OpSet(2, identityOperators, NoTables, NoTables, OpenArray({"+", "==", "<"}))

StringSet ==
  OpSet(2, identityOperators, [i \in {0, 1} |-> identityOperators],
        [i \in {0, 1} |-> identityOperators], OpenArray({"+", "==", "<"}))

BuiltinSets == <<NumberSet, BigIntSet, StringSet>>

\* registry before any Operators call, keyed by ordinal
InitialRegistry == [c \in {0, 1, 2} |-> BuiltinSets[c + 1]]

\* a counter that starts at the ordinal of Number
FirstCounterOfNumber == NumberSet.OperatorCounter

\* the first ordinal Operators hands out
FirstCounter == Len(BuiltinSets)

(***************************************************************************)
(* Classes as they are passed to left:, right: and _withOperatorsFrom.     *)
(***************************************************************************)
Class(c) == [k |-> "class", ord |-> c]
PlainClass == [k |-> "plain", ord |-> 0]
NoClass == [k |-> "undefined", ord |-> 0]

\* klass[OperatorDefinition] is defined
HasDefinition(klass) == klass.k = "class"

(***************************************************************************)
(* Operators(table, ...tables)                                             *)
(***************************************************************************)
ErrNotFunction == "OperatorsMustBeFunctions"
ErrBothSides == "BothLeftAndRight"
ErrNoSide == "NeitherLeftNorRight"
ErrPairNotOverloadable == "PairedTypeNotOverloadable"
ErrNotOpen == "OperatorNotOpen"
ErrUnrecognized == "UnrecognizedOperator"

\* cleanTable: entries maps property names to "function" or to another kind
\* of value; only the names of operatorList are read
cleanTableThrows(entries, operatorList) ==
  \E k \in DOMAIN entries \cap operatorList : entries[k] # "function"

cleanTable(entries, operatorList, arg) ==
  [k \in DOMAIN entries \cap operatorList |-> UserFn(arg)]

\* a loop that accepts every operator
OpenCheckNone(table, pairedSet) == ""

\* the loop over Object.keys(table) that consults OpenOperators.has
OpenCheck(table, pairedSet) ==
  IF DOMAIN table = {} THEN ""
  ELSE IF ~pairedSet.OpenOperators.isSet THEN ErrNative
  ELSE IF \E key \in DOMAIN table : key \notin pairedSet.OpenOperators.ops
       THEN ErrNotOpen
  ELSE ""

Put(f, i, v) == [j \in DOMAIN f \cup {i} |-> IF j = i THEN v ELSE f[j]]

\* a store that files the table under the side the property names
StoreSameSide(left, right, c, table) == [left |-> Put(left, c, table), right |-> right]

\* right[leftSet.OperatorCounter] = table: "backwards", the new type is on
\* the right and the other argument on the left
StoreOnRight(left, right, c, table) == [left |-> left, right |-> Put(right, c, table)]

\* left[rightSet.OperatorCounter] = table
StoreOnLeft(left, right, c, table) == [left |-> Put(left, c, table), right |-> right]

\* partitionTables from the i-th table on, with left and right built so far
RECURSIVE partitionFrom(_, _, _, _, _)
partitionFrom(tables, i, left, right, reg) ==
  IF i > Len(tables) THEN [err |-> "", left |-> left, right |-> right]
  ELSE
    LET t == tables[i]
        table == cleanTable(t.entries, binaryOperators, i)
        fail(e) == [err |-> e, left |-> left, right |-> right]
    IN  IF cleanTableThrows(t.entries, binaryOperators) THEN fail(ErrNotFunction)
        ELSE IF t.left.k # "undefined" THEN
          IF t.right.k # "undefined" THEN fail(ErrBothSides)
          ELSE IF ~HasDefinition(t.left) THEN fail(ErrPairNotOverloadable)
          ELSE IF OpenCheck(table, reg[t.left.ord]) # ""
               THEN fail(OpenCheck(table, reg[t.left.ord]))
          ELSE LET s == StoreOnRight(left, right, reg[t.left.ord].OperatorCounter, table)
               IN  partitionFrom(tables, i + 1, s.left, s.right, reg)
        ELSE
          IF t.right.k = "undefined" THEN fail(ErrNoSide)
          ELSE IF ~HasDefinition(t.right) THEN fail(ErrPairNotOverloadable)
          ELSE IF OpenCheck(table, reg[t.right.ord]) # ""
               THEN fail(OpenCheck(table, reg[t.right.ord]))
          ELSE LET s == StoreOnLeft(left, right, reg[t.right.ord].OperatorCounter, table)
               IN  partitionFrom(tables, i + 1, s.left, s.right, reg)

partitionTables(tables, reg) == partitionFrom(tables, 1, NoTables, NoTables, reg)

\* makeOpenSet: open is [given, ops]
makeOpenSetThrows(open) == open.given /\ \E o \in open.ops : o \notin operatorSet

makeOpenSet(open) == OpenSet(IF open.given THEN open.ops ELSE {})

\* the body of Operators after the counter was taken: the error thrown
\* ("" when none) and the operator set built
OperatorsBody(counter, entries, open, tables, reg) ==
  LET parts == partitionTables(tables, reg)
      set == OpSet(counter, cleanTable(entries, allOperators, 0),
                   parts.left, parts.right, makeOpenSet(open))
  IN  IF cleanTableThrows(entries, allOperators) THEN [err |-> ErrNotFunction, set |-> set]
      ELSE IF parts.err # "" THEN [err |-> parts.err, set |-> set]
      ELSE IF makeOpenSetThrows(open) THEN [err |-> ErrUnrecognized, set |-> set]
      ELSE [err |-> "", set |-> set]

(***************************************************************************)
(* Permission scopes: _declareOperators and _withOperatorsFrom             *)
(***************************************************************************)
\* a default that leaves String out
defaultOperatorsShort == {0, 1}

defaultOperators == {0, 1, 2}

\* a scope that starts from the default whatever the parent
declareOperatorsDefault(parent) == defaultOperators

\* new Set([...parent])
declareOperators(parent) == parent

\* a grant that replaces what the scope held
withOperatorsFromReplacing(set, additions, i, reg) ==
  [err |-> "",
   set |-> defaultOperators \cup
             {additions[k].ord : k \in {j \in DOMAIN additions : HasDefinition(additions[j])}}]

\* the loop of _withOperatorsFrom from the i-th class on: the set as it is
\* when the loop ends or throws, and the error thrown ("" when none)
RECURSIVE withOperatorsFrom(_, _, _, _)
withOperatorsFrom(set, additions, i, reg) ==
  IF i > Len(additions) THEN [err |-> "", set |-> set]
  ELSE IF ~HasDefinition(additions[i]) THEN [err |-> ErrNotOverloadable, set |-> set]
  ELSE withOperatorsFrom(set \cup {reg[additions[i].ord].OperatorCounter},
                         additions, i + 1, reg)

(***************************************************************************)
(* Classification of operands                                              *)
(***************************************************************************)
isNumeric(x) == typeof(x) \in {"number", "bigint"}

isObject(x) == typeof(x) = "object" /\ x.t # "null"

\* x[OperatorSet]: throws on null and undefined, is found on the prototype of
\* numbers, bigints, strings and their wrappers, is the own set of an
\* instance, and is undefined for everything else
SetAccess(x) ==
  CASE x.t \in {"null", "undefined"} -> [st |-> "throw", ord |-> 0]
    [] x.t \in {"number", "NaN", "Number"} -> [st |-> "set", ord |-> 0]
    [] x.t \in {"bigint", "BigInt"} -> [st |-> "set", ord |-> 1]
    [] x.t \in {"string", "String"} -> [st |-> "set", ord |-> 2]
    [] x.t = "instance" -> [st |-> "set", ord |-> x.n]
    [] OTHER -> [st |-> "undefined", ord |-> 0]

hasOverloadedOperators(obj) == isObject(obj) /\ SetAccess(obj).st = "set"

\* +a for a value that is neither numeric nor carries an operator set
ToNumericOperand(a) ==
  IF isNumeric(a) THEN a
  ELSE IF hasOverloadedOperators(a) THEN a
  ELSE JSToNumeric(JSToPrimitive(a))

\* ToPrimitive of the shim calls x.valueOf without a receiver, which throws
\* for an object that inherits Object.prototype.valueOf
ToPrimitive(x) == IF isObject(x) THEN Throw(ErrNative, <<>>) ELSE Return(x, <<>>)

ToOperand(x) == IF hasOverloadedOperators(x) THEN Return(x, <<>>) ELSE ToPrimitive(x)

ToBoolean(v) ==
  CASE v.t = "boolean" -> v.n = 1
    [] v.t \in {"number", "bigint"} -> v.n # 0
    [] v.t = "string" -> v.s # <<>>
    [] v.t \in {"NaN", "null", "undefined"} -> FALSE
    [] OTHER -> TRUE

\* !result
Not(out) ==
  IF out.kind = "return" THEN Return(Bool(~ToBoolean(out.val)), out.trace) ELSE out

(***************************************************************************)
(* Events of a dispatch                                                    *)
(***************************************************************************)
Event(ev, owner, table, idx, op, fn, x, y, r) ==
  [ev |-> ev, owner |-> owner, table |-> table, idx |-> idx, op |-> op,
   fn |-> fn, x |-> x, y |-> y, r |-> r]

CheckEvent(ord, op, a) == Event("check", ord, "", 0, op, IdentityFn, a, NoValue, NoValue)
LookupEvent(owner, table, idx, op) ==
  Event("lookup", owner, table, idx, op, IdentityFn, NoValue, NoValue, NoValue)
InvokeEvent(owner, table, idx, op, fn, x, y, r) ==
  Event("invoke", owner, table, idx, op, fn, x, y, r)

\* fn(a, b) for fn found in a table: identityOperators run the language's
\* operator; a user function returns ret
Invoke(fn, owner, table, idx, op, a, b, ret, tr) ==
  IF fn.kind = "identity"
  THEN LET out == IF op \in unaryOperators THEN NativeUnary(op, a)
                  ELSE NativeBinary(op, a, b)
       IN  [out EXCEPT !.trace =
              tr \o <<InvokeEvent(owner, table, idx, op, fn, a, b, out.val)>>]
  ELSE Return(ret, tr \o <<InvokeEvent(owner, table, idx, op, fn, a, b, ret)>>)

(***************************************************************************)
(* dispatchBinaryOperator(operator, a, b, operatorSet)                     *)
(***************************************************************************)
\* a check that lets every operator set through
checkPermittedAlways(operatorCounter, scope) == TRUE

\* a check against the default set instead of the scope
checkPermittedDefault(operatorCounter, scope) == operatorCounter \in defaultOperators

\* checkPermitted passes: operatorSet.has(operatorCounter)
checkPermitted(operatorCounter, scope) == operatorCounter \in scope

\* a lookup that falls back to the built-in table
SelfTableBuiltin(reg, c) == identityOperators

\* a lookup in the object the program passed to Operators, as it is now
SelfTableOfArgument(reg, c) ==
  IF c \in DOMAIN tableObjects THEN cleanTable(tableObjects[c].entries, allOperators, 0)
  ELSE reg[c].SelfOperatorDefinition

\* the table consulted when both operands carry the set with ordinal c
SelfTable(reg, c) == reg[c].SelfOperatorDefinition

\* a selection that consults the tables of the lower ordinal
CrossTableOfLower(oa, ob) ==
  IF oa < ob THEN [owner |-> oa, table |-> "left", idx |-> ob]
  ELSE [owner |-> ob, table |-> "right", idx |-> oa]

\* the table the else-branch selects: the higher ordinal's, indexed by the lower
CrossTable(oa, ob) ==
  IF oa < ob THEN [owner |-> ob, table |-> "right", idx |-> oa]
  ELSE [owner |-> oa, table |-> "left", idx |-> ob]

\* a selection that reads the table of the other side
DefinitionsOfOtherSide(reg, sel) ==
  IF sel.table = "right" THEN reg[sel.owner].LeftOperatorDefinitions
  ELSE reg[sel.owner].RightOperatorDefinitions

Definitions(reg, sel) ==
  IF sel.table = "right" THEN reg[sel.owner].RightOperatorDefinitions
  ELSE reg[sel.owner].LeftOperatorDefinitions

dispatchBinaryOperator(operator, a, b, scope, reg, ret) ==
  LET sa == SetAccess(a)
      sb == SetAccess(b)
      ca == <<CheckEvent(sa.ord, operator, a)>>
      cb == ca \o <<CheckEvent(sb.ord, operator, b)>>
      sel == CrossTable(sa.ord, sb.ord)
      defs == Definitions(reg, sel)
      selfLook == ca \o <<LookupEvent(sa.ord, "self", sa.ord, operator)>>
      crossLook == cb \o <<LookupEvent(sel.owner, sel.table, sel.idx, operator)>>
  IN  IF sa.st # "set" THEN Throw(ErrNative, <<>>)
      ELSE IF ~checkPermitted(sa.ord, scope) THEN Throw(ErrNotPermitted, ca)
      ELSE IF sb.st = "throw" THEN Throw(ErrNative, ca)
      ELSE IF sb.st = "set" /\ sb.ord = sa.ord THEN
        IF operator \notin DOMAIN SelfTable(reg, sa.ord)
        THEN Throw(ErrNoOverload, selfLook)
        ELSE Invoke(SelfTable(reg, sa.ord)[operator], sa.ord, "self",
                    sa.ord, operator, a, b, ret, selfLook)
      ELSE IF sb.st # "set" THEN Throw(ErrNative, ca)
      ELSE IF ~checkPermitted(sb.ord, scope) THEN Throw(ErrNotPermitted, cb)
      ELSE IF sel.idx \notin DOMAIN defs THEN Throw(ErrNoOverload, crossLook)
      ELSE IF operator \notin DOMAIN defs[sel.idx] THEN Throw(ErrNoOverload, crossLook)
      ELSE Invoke(defs[sel.idx][operator], sel.owner, sel.table, sel.idx,
                  operator, a, b, ret, crossLook)

(***************************************************************************)
(* _binary and _unary                                                      *)
(***************************************************************************)
\* x === y for x that is not an object
StrictEq(x, y) == x.t # "NaN" /\ x = y

RECURSIVE abstractEqualityComparison(_, _, _, _, _)
abstractEqualityComparison(x, y, scope, reg, ret) ==
  LET ox == ToOperand(x)
      oy == ToOperand(y)
  IN  IF typeof(x) = typeof(y) /\ ~isObject(x) THEN Return(Bool(StrictEq(x, y)), <<>>)
      ELSE IF x.t = "null" /\ y.t = "undefined" THEN Return(Bool(TRUE), <<>>)
      ELSE IF x.t = "undefined" /\ y.t = "null" THEN Return(Bool(TRUE), <<>>)
      ELSE IF typeof(x) = "boolean"
           THEN abstractEqualityComparison(Num(x.n), y, scope, reg, ret)
      ELSE IF typeof(y) = "boolean"
           THEN abstractEqualityComparison(x, Num(y.n), scope, reg, ret)
      ELSE IF ox.kind = "throw" THEN ox
      ELSE IF oy.kind = "throw" THEN oy
      ELSE IF ~hasOverloadedOperators(ox.val) /\ ~hasOverloadedOperators(oy.val)
           THEN Return(Bool(LooseEq(ox.val, oy.val)), <<>>)
      ELSE dispatchBinaryOperator("==", ox.val, oy.val, scope, reg, ret)

\* an addition without the textual branch
additionOperatorDispatching(a, b, scope, reg, ret) ==
  dispatchBinaryOperator("+", a, b, scope, reg, ret)

additionOperator(a, b, scope, reg, ret) ==
  LET oa == ToOperand(a)
      ob == ToOperand(b)
  IN  IF oa.kind = "throw" THEN oa
      ELSE IF ob.kind = "throw" THEN ob
      ELSE IF typeof(oa.val) = "string" \/ typeof(ob.val) = "string"
           THEN NativeBinary("+", oa.val, ob.val)
      ELSE dispatchBinaryOperator("+", oa.val, ob.val, scope, reg, ret)

\* a comparison that never swaps its operands
SwapsNever(operator) == FALSE

\* the switch of _abstractRelationalComparison: swap and not by operator
Swaps(operator) == operator \in {">", "<="}
Negates(operator) == operator \in {"<=", ">="}

abstractRelationalComparison(operator, a, b, scope, reg, ret) ==
  LET oa == ToOperand(a)
      ob == ToOperand(b)
      swap == Swaps(operator)
      not == Negates(operator)
      l == IF swap THEN ob.val ELSE oa.val
      r == IF swap THEN oa.val ELSE ob.val
      result == IF ~hasOverloadedOperators(l) /\ ~hasOverloadedOperators(r)
                THEN Return(Bool(Less(l, r)), <<>>)
                ELSE dispatchBinaryOperator("<", l, r, scope, reg, ret)
  IN  IF oa.kind = "throw" THEN oa
      ELSE IF ob.kind = "throw" THEN ob
      ELSE IF not THEN Not(result)
      ELSE result

numericBinaryOperate(operator, a, b, scope, reg, ret) ==
  IF isNumeric(a) /\ isNumeric(b)
  THEN Invoke(identityOperators[operator], 0, "fast", 0, operator, a, b, ret, <<>>)
  ELSE dispatchBinaryOperator(operator, ToNumericOperand(a), ToNumericOperand(b),
                              scope, reg, ret)

binary(operator, a, b, scope, reg, ret) ==
  CASE operator = "+" -> additionOperator(a, b, scope, reg, ret)
    [] operator = "==" -> abstractEqualityComparison(a, b, scope, reg, ret)
    [] operator = "!=" -> Not(abstractEqualityComparison(a, b, scope, reg, ret))
    [] operator \in {"<", ">", "<=", ">="} ->
         abstractRelationalComparison(operator, a, b, scope, reg, ret)
    [] OTHER -> numericBinaryOperate(operator, a, b, scope, reg, ret)

unary(operator, a, scope, reg, ret) ==
  LET n == ToNumericOperand(a)
      sa == SetAccess(n)
      ca == <<CheckEvent(sa.ord, operator, n)>>
      look == ca \o <<LookupEvent(sa.ord, "self", sa.ord, operator)>>
  IN  IF isNumeric(a)
      THEN Invoke(identityOperators[operator], 0, "fast", 0, operator, a, NoValue, ret, <<>>)
      ELSE IF sa.st # "set" THEN Throw(ErrNative, <<>>)
      ELSE IF ~checkPermitted(sa.ord, scope) THEN Throw(ErrNotPermitted, ca)
      ELSE IF operator \notin DOMAIN SelfTable(reg, sa.ord)
           THEN Throw(ErrNoOverload, look)
      ELSE Invoke(SelfTable(reg, sa.ord)[operator], sa.ord, "self",
                  sa.ord, operator, n, NoValue, ret, look)

(***************************************************************************)
(* The state machine.  OperatorCounter is the module-level counter,        *)
(* registry the operator sets reachable through [OperatorDefinition] and   *)
(* [OperatorSet], scopes the Set objects _declareOperators has returned,   *)
(* in creation order, parents the scope each was copied from (0 for the    *)
(* default), last the call in progress with its outcome, idle              *)
(* between calls: the engine is synchronous, one call at a time, and       *)
(* tableObjects the argument objects of the successful Operators calls as  *)
(* the program holds them, by ordinal.                                     *)
(***************************************************************************)
Fns(keys) == [k \in keys |-> "function"]
NoEntries == Fns({})
NoOpen == [given |-> FALSE, ops |-> {}]
Open(ops) == [given |-> TRUE, ops |-> ops]
CrossInput(left, right, entries) == [left |-> left, right |-> right, entries |-> entries]
RegInput(entries, open, tables) == [entries |-> entries, open |-> open, tables |-> tables]
NoInput == RegInput(NoEntries, NoOpen, <<>>)

Call(call, op, a, b, scope, additions, input, before, out) ==
  [call |-> call, op |-> op, a |-> a, b |-> b, scope |-> scope,
   additions |-> additions, input |-> input, before |-> before, out |-> out]

Idle == Call("idle", "", NoValue, NoValue, 0, <<>>, NoInput, {}, Return(NoValue, <<>>))

InitShim ==
  /\ OperatorCounter = FirstCounter
  /\ registry = InitialRegistry
  /\ scopes = <<>>
  /\ parents = <<>>
  /\ last = Idle
  /\ tableObjects = [c \in {} |-> NoInput]
  /\ decoratorOperators = <<>>
  /\ target = [c \in {} |-> [k \in {} |-> NoValue]]

\* the pass object after pre(): this.stack = [], this.shim undefined (0)
NewPass == [stack |-> <<>>, shim |-> 0]

\* a traversal about to start on program: the position in the program, the
\* rewriting done at each position, the uids generated, the error thrown
Start(program) ==
  [program |-> program, pc |-> 1, out |-> [i \in {} |-> 0], uid |-> 0, error |-> "",
   done |-> FALSE]

Init ==
  /\ InitShim
  /\ pass = NewPass
  /\ traversal = Start(<<>>)

\* the caller takes the outcome of the call and goes on
Resume ==
  /\ last # Idle
  /\ last' = Idle
  /\ UNCHANGED <<OperatorCounter, registry, scopes, parents, tableObjects>>
  /\ UNCHANGED others

\* the classes a program can name: Number, BigInt, String, the classes
\* Operators returned, and a class without operators
Classes == {Class(c) : c \in DOMAIN registry} \cup {PlainClass}

\* const counter = OperatorCounter++ comes first, whatever happens next
OperatorsCall(Inputs) ==
  /\ last = Idle
  /\ OperatorCounter < FirstCounter + MaxTypes
  /\ \E input \in Inputs :
       LET body == OperatorsBody(OperatorCounter, input.entries, input.open,
                                 input.tables, registry)
       IN  /\ OperatorCounter' = OperatorCounter + 1
           /\ registry' = IF body.err = "" THEN Put(registry, OperatorCounter, body.set)
                          ELSE registry
           /\ last' = Call("Operators", "", NoValue, NoValue, 0, <<>>, input, {},
                           IF body.err = "" THEN Return(NoValue, <<>>)
                           ELSE Throw(body.err, <<>>))
           /\ tableObjects' = IF body.err = "" THEN Put(tableObjects, OperatorCounter, input)
                              ELSE tableObjects
           /\ UNCHANGED <<scopes, parents>>
           /\ UNCHANGED others

\* _declareOperators(parent): parent 0 stands for the default argument
DeclareOperators ==
  /\ last = Idle
  /\ Len(scopes) < MaxScopes
  /\ \E parent \in 0..Len(scopes) :
       /\ scopes' = Append(scopes, declareOperators(IF parent = 0 THEN defaultOperators
                                                     ELSE scopes[parent]))
       /\ parents' = Append(parents, parent)
       /\ last' = Call("declare", "", NoValue, NoValue, parent, <<>>, NoInput, {},
                       Return(NoValue, <<>>))
       /\ UNCHANGED <<OperatorCounter, registry, tableObjects>>
       /\ UNCHANGED others

AdditionLists ==
  UNION {[1..n -> Classes] : n \in 0..MaxAdditions}

WithOperatorsFrom ==
  /\ last = Idle
  /\ \E i \in DOMAIN scopes, additions \in AdditionLists :
       LET r == withOperatorsFrom(scopes[i], additions, 1, registry)
       IN  /\ scopes' = [scopes EXCEPT ![i] = r.set]
           /\ last' = Call("with", "", NoValue, NoValue, i, additions, NoInput, scopes[i],
                           IF r.err = "" THEN Return(NoValue, <<>>)
                           ELSE Throw(r.err, <<>>))
           /\ UNCHANGED <<OperatorCounter, registry, parents, tableObjects>>
           /\ UNCHANGED others

\* the argument objects of an Operators call after the program deleted
\* every operator property of them and emptied the open array
Emptied(input) ==
  RegInput(NoEntries, [given |-> input.open.given, ops |-> {}],
           [i \in DOMAIN input.tables |->
              CrossInput(input.tables[i].left, input.tables[i].right, NoEntries)])

\* the program changes the objects it passed to an earlier Operators call;
\* the operator set holds the tables cleanTable built and the Set
\* makeOpenSet built, not those objects
MutateTable ==
  /\ last = Idle
  /\ \E c \in DOMAIN tableObjects :
       /\ tableObjects[c] # Emptied(tableObjects[c])
       /\ tableObjects' = [tableObjects EXCEPT ![c] = Emptied(@)]
       /\ last' = Call("mutate", "", NoValue, NoValue, c, <<>>, NoInput, {},
                       Return(NoValue, <<>>))
       /\ UNCHANGED <<OperatorCounter, registry, scopes, parents>>
       /\ UNCHANGED others

\* the values a user function may return
UserReturns == {Bool(TRUE), Bool(FALSE)}

\* one instance of every class Operators returned
Instances == {Instance(c, 1) : c \in DOMAIN registry \ DOMAIN InitialRegistry}

Binary(Ops, Values) ==
  /\ last = Idle
  /\ \E op \in Ops, a \in Values \cup Instances, b \in Values \cup Instances,
        i \in DOMAIN scopes, ret \in UserReturns :
       /\ last' = Call("binary", op, a, b, i, <<>>, NoInput, scopes[i],
                       binary(op, a, b, scopes[i], registry, ret))
       /\ UNCHANGED <<OperatorCounter, registry, scopes, parents, tableObjects>>
       /\ UNCHANGED others

Unary(Ops, Values) ==
  /\ last = Idle
  /\ \E op \in Ops, a \in Values \cup Instances, i \in DOMAIN scopes, ret \in UserReturns :
       /\ last' = Call("unary", op, a, NoValue, i, <<>>, NoInput, scopes[i],
                       unary(op, a, scopes[i], registry, ret))
       /\ UNCHANGED <<OperatorCounter, registry, scopes, parents, tableObjects>>
       /\ UNCHANGED others

(***************************************************************************)
(* The decorator interface: Operators.define and Operators.overloaded.     *)
(***************************************************************************)
ErrNotMethod == "NotMethod"
ErrNoOperators == "NoOperatorsOverloaded"

\* the second argument of Operators.define: missing, or an object whose left
\* and right are classes or undefined
NoOptions == [given |-> FALSE, left |-> NoClass, right |-> NoClass]
Options(left, right) == [given |-> TRUE, left |-> left, right |-> right]

AddKey(entries, key) == [k \in DOMAIN entries \cup {key} |-> "function"]

\* args.find(entry => entry.right === options.right ||
\*                    entry.left === options.left), 0 when nothing is found;
\* args[1] is the self table, whose left and right are undefined
FindEntry(args, options) ==
  LET hits == {i \in DOMAIN args :
                 args[i].right = options.right \/ args[i].left = options.left}
  IN  IF hits = {} THEN 0 ELSE CHOOSE i \in hits : \A j \in hits : i <= j

\* the loop of the finisher of Operators.overloaded over the definitions of
\* the class, from the k-th on
RECURSIVE Munge(_, _, _)
Munge(args, operators, k) ==
  IF k > Len(operators) THEN args
  ELSE
    LET d == operators[k]
        i == FindEntry(args, d.options)
    IN  IF ~d.options.given
        THEN Munge([args EXCEPT ![1].entries = AddKey(@, d.operator)], operators, k + 1)
        ELSE IF i = 0
        THEN Munge(Append(args, CrossInput(d.options.left, d.options.right,
                                           Fns({d.operator}))),
                   operators, k + 1)
        ELSE Munge([args EXCEPT ![i].entries = AddKey(@, d.operator)], operators, k + 1)

\* the arguments the finisher passes to Operators: args[0] = {...open} with
\* the operators added, then the tables pushed
DecoratorArgs(open, operators) ==
  LET args == Munge(<<CrossInput(NoClass, NoClass, NoEntries)>>, operators, 1)
  IN  RegInput(args[1].entries, open, Tail(args))

\* @Operators.define(operator, options) on a class element, and its finisher:
\* the definition is pushed onto the list of the class
Define(Ops, Opts) ==
  /\ last = Idle
  /\ Len(decoratorOperators) < MaxDefines
  /\ \E operator \in Ops, options \in Opts, kind \in {"method", "field"} :
       /\ decoratorOperators' =
            IF kind = "method"
            THEN Append(decoratorOperators, [operator |-> operator, options |-> options])
            ELSE decoratorOperators
       /\ last' = Call("define", operator, NoValue, NoValue, 0, <<>>, NoInput, {},
                       IF kind = "method" THEN Return(NoValue, <<>>)
                       ELSE Throw(ErrNotMethod, <<>>))
       /\ UNCHANGED <<OperatorCounter, registry, scopes, parents, tableObjects, target,
                      pass, traversal>>

\* the finisher of @Operators.overloaded: the list of the class is taken and
\* deleted, munged into arguments, and Operators is called with them
Overloaded(Opens) ==
  /\ last = Idle
  /\ OperatorCounter < FirstCounter + MaxTypes
  /\ \E open \in Opens :
       IF decoratorOperators = <<>>
       THEN /\ last' = Call("overloaded", "", NoValue, NoValue, 0, <<>>, NoInput, {},
                            Throw(ErrNoOperators, <<>>))
            /\ UNCHANGED <<OperatorCounter, registry, scopes, parents, tableObjects,
                           decoratorOperators, target, pass, traversal>>
       ELSE LET input == DecoratorArgs(open, decoratorOperators)
                body == OperatorsBody(OperatorCounter, input.entries, input.open,
                                      input.tables, registry)
            IN  /\ decoratorOperators' = <<>>
                /\ OperatorCounter' = OperatorCounter + 1
                /\ registry' = IF body.err = ""
                               THEN Put(registry, OperatorCounter, body.set)
                               ELSE registry
                /\ tableObjects' = IF body.err = ""
                                   THEN Put(tableObjects, OperatorCounter, input)
                                   ELSE tableObjects
                /\ last' = Call("overloaded", "", NoValue, NoValue, 0, <<>>, input, {},
                                IF body.err = "" THEN Return(NoValue, <<>>)
                                ELSE Throw(body.err, <<>>))
                /\ UNCHANGED <<scopes, parents, target, pass, traversal>>

(***************************************************************************)
(* Integer-indexed access: the Proxy an Operators class with '[]' or '[]=' *)
(* constructs, and its traps.                                              *)
(***************************************************************************)
\* numbers a property key can denote besides the integers and NaN
NegativeZero == Val("-0", 0, <<>>, 0)
Infinity == Val("Infinity", 0, <<>>, 0)
\* tenths / 10 for tenths that is not a multiple of 10
Fraction(tenths) == Val("fraction", tenths, <<>>, 0)

\* the symbol under which an instance holds its operator set
OperatorSet == Val("symbol", 0, <<>>, 1)

S_length == <<108, 101, 110, 103, 116, 104>>
S_Infinity == <<73, 110, 102, 105, 110, 105, 116, 121>>

\* digits "." digit
IsDecimal(s) ==
  /\ Len(s) >= 3
  /\ s[Len(s) - 1] = 46
  /\ IsDigits(SubSeq(s, 1, Len(s) - 2))
  /\ IsDigits(<<s[Len(s)]>>)

\* Number(key) on the keys of the model: "Infinity", digits "." digit,
\* "-" zeros, and the strings StringToNumber knows
KeyToNumber(s) ==
  IF s = S_Infinity THEN Infinity
  ELSE IF IsDecimal(s)
  THEN LET tenths == 10 * DigitsValue(SubSeq(s, 1, Len(s) - 2)) + (s[Len(s)] - 48)
       IN  IF tenths % 10 = 0 THEN Num(tenths \div 10) ELSE Fraction(tenths)
  ELSE IF Len(s) > 1 /\ s[1] = 45 /\ IsDigits(Tail(s)) /\ DigitsValue(Tail(s)) = 0
  THEN NegativeZero
  ELSE StringToNumber(s)

\* String(n)
NumberToString(n) ==
  CASE n.t = "fraction" -> NatDigits(n.n \div 10) \o <<46, 48 + (n.n % 10)>>
    [] n.t = "Infinity" -> S_Infinity
    [] n.t = "-0" -> <<48>>
    [] OTHER -> JSToString(n)

CanonicalNumericIndexString(key) ==
  IF key.t # "string" THEN Undefined
  ELSE IF key.s = <<45, 48>> THEN NegativeZero
  ELSE IF NumberToString(KeyToNumber(key.s)) # key.s THEN Undefined
  ELSE KeyToNumber(key.s)

IsInteger(n) ==
  IF n.t \notin {"number", "NaN", "-0", "Infinity", "fraction"} THEN FALSE
  ELSE IF n.t \in {"NaN", "Infinity"} THEN FALSE
  ELSE n.t # "fraction"

IsBadIndex(n) == ~IsInteger(n) \/ (n.t = "number" /\ n.n < 0) \/ n.t = "-0"

\* n >= length and n < length for an index n that is not bad; both are false
\* when length is NaN
AtLeast(n, length) == length.t = "number" /\ n.n >= length.n
Below(n, length) == length.t = "number" /\ n.n < length.n

\* Reflect.get and Reflect.has on the target
ReflectGet(t, key) == IF key \in DOMAIN t THEN t[key] ELSE Undefined
ReflectHas(t, key) == key \in DOMAIN t

\* Number(proxy.length): the read of "length" goes through the get trap to
\* the target
NumberOfLength(t) == JSToNumeric(JSToPrimitive(ReflectGet(t, Str(S_length))))

\* table['[]'](proxy, n) and table['[]='](proxy, n, value): a TypeError when
\* the table has no such entry
IndexInvoke(c, table, op, n, value, ret) ==
  IF op \notin DOMAIN table THEN Throw(ErrNative, <<>>)
  ELSE Return(ret, <<InvokeEvent(c, "self", 0, op, table[op], n, value, ret)>>)

Descriptor(value) == [t |-> "descriptor", value |-> value]
KeyList(index, own) == [t |-> "keys", index |-> index, own |-> own]

\* a get trap whose length test is n < length
getBelow(c, table, t, key, ret) ==
  LET n == CanonicalNumericIndexString(key)
  IN  IF n = Undefined THEN Return(ReflectGet(t, key), <<>>)
      ELSE IF IsBadIndex(n) THEN Return(Undefined, <<>>)
      ELSE IF ~Below(n, NumberOfLength(t)) THEN Return(Undefined, <<>>)
      ELSE IndexInvoke(c, table, "[]", n, NoValue, ret)

get(c, table, t, key, ret) ==
  LET n == CanonicalNumericIndexString(key)
  IN  IF n = Undefined THEN Return(ReflectGet(t, key), <<>>)
      ELSE IF IsBadIndex(n) THEN Return(Undefined, <<>>)
      ELSE IF AtLeast(n, NumberOfLength(t)) THEN Return(Undefined, <<>>)
      ELSE IndexInvoke(c, table, "[]", n, NoValue, ret)

\* a set trap that stores an index at or past length on the target
setWithinLength(c, table, t, key, value) ==
  LET n == CanonicalNumericIndexString(key)
  IN  IF n = Undefined \/ (~IsBadIndex(n) /\ AtLeast(n, NumberOfLength(t)))
      THEN [out |-> Return(Bool(TRUE), <<>>), target |-> Put(t, key, value)]
      ELSE IF IsBadIndex(n) THEN [out |-> Return(Bool(FALSE), <<>>), target |-> t]
      ELSE [out |-> [IndexInvoke(c, table, "[]=", n, value, Undefined)
                       EXCEPT !.val = IF @ = NoValue THEN @ ELSE Bool(TRUE)],
            target |-> t]

\* the outcome of the set trap and the target after it; for a key that is
\* not numeric Reflect.set defines the property on the target through the
\* defineProperty trap (the set trap; set names the operator set elsewhere)
setTrap(c, table, t, key, value) ==
  LET n == CanonicalNumericIndexString(key)
  IN  IF n = Undefined
      THEN [out |-> Return(Bool(TRUE), <<>>), target |-> Put(t, key, value)]
      ELSE IF IsBadIndex(n) THEN [out |-> Return(Bool(FALSE), <<>>), target |-> t]
      ELSE [out |-> [IndexInvoke(c, table, "[]=", n, value, Undefined)
                       EXCEPT !.val = IF @ = NoValue THEN @ ELSE Bool(TRUE)],
            target |-> t]

has(t, key) ==
  LET n == CanonicalNumericIndexString(key)
  IN  IF n = Undefined THEN Return(Bool(ReflectHas(t, key)), <<>>)
      ELSE IF IsBadIndex(n) THEN Return(Bool(FALSE), <<>>)
      ELSE Return(Bool(Below(n, NumberOfLength(t))), <<>>)

getOwnPropertyDescriptor(c, table, t, key, ret) ==
  LET n == CanonicalNumericIndexString(key)
      value == IndexInvoke(c, table, "[]", n, NoValue, ret)
  IN  IF n = Undefined
      THEN Return(IF key \in DOMAIN t THEN Descriptor(t[key]) ELSE Undefined, <<>>)
      ELSE IF IsBadIndex(n) THEN Return(Undefined, <<>>)
      ELSE IF AtLeast(n, NumberOfLength(t)) THEN Return(Undefined, <<>>)
      ELSE IF value.kind = "throw" THEN value
      ELSE Return(Descriptor(value.val), value.trace)

\* the keys String(0) .. String(length - 1), then the keys of the target
ownKeys(t) ==
  LET length == NumberOfLength(t)
      count == IF length.t = "number" /\ length.n > 0 THEN length.n ELSE 0
  IN  Return(KeyList([i \in 1..count |-> Str(NatDigits(i - 1))], DOMAIN t), <<>>)

\* the class with ordinal c constructs a Proxy
IsExotic(c) ==
  "[]" \in DOMAIN SelfTable(registry, c) \/ "[]=" \in DOMAIN SelfTable(registry, c)

\* new C() for a class with '[]' or '[]=': the target holds the operator set
New ==
  /\ last = Idle
  /\ \E c \in DOMAIN registry \ DOMAIN target :
       /\ c \notin DOMAIN InitialRegistry
       /\ IsExotic(c)
       /\ target' = Put(target, c, [k \in {OperatorSet} |-> Val("operatorset", c, <<>>, 0)])
       /\ last' = Call("new", "", NoValue, NoValue, c, <<>>, NoInput, {},
                       Return(Instance(c, 1), <<>>))
       /\ UNCHANGED <<OperatorCounter, registry, scopes, parents, tableObjects,
                      decoratorOperators, pass, traversal>>

\* instance[key]
Get(Keys) ==
  /\ last = Idle
  /\ \E c \in DOMAIN target, key \in Keys, ret \in UserReturns :
       /\ last' = Call("get", "", key, NoValue, c, <<>>, NoInput, {},
                       get(c, SelfTable(registry, c), target[c], key, ret))
       /\ UNCHANGED <<OperatorCounter, registry, scopes, parents, tableObjects>>
       /\ UNCHANGED others

\* instance[key] = value
Set(Keys, Values) ==
  /\ last = Idle
  /\ \E c \in DOMAIN target, key \in Keys, value \in Values :
       LET r == setTrap(c, SelfTable(registry, c), target[c], key, value)
       IN  /\ last' = Call("set", "", key, value, c, <<>>, NoInput, {}, r.out)
           /\ target' = [target EXCEPT ![c] = r.target]
           /\ UNCHANGED <<OperatorCounter, registry, scopes, parents, tableObjects,
                          decoratorOperators, pass, traversal>>

\* key in instance
Has(Keys) ==
  /\ last = Idle
  /\ \E c \in DOMAIN target, key \in Keys :
       /\ last' = Call("has", "", key, NoValue, c, <<>>, NoInput, {}, has(target[c], key))
       /\ UNCHANGED <<OperatorCounter, registry, scopes, parents, tableObjects>>
       /\ UNCHANGED others

\* Object.getOwnPropertyDescriptor(instance, key)
GetOwnPropertyDescriptor(Keys) ==
  /\ last = Idle
  /\ \E c \in DOMAIN target, key \in Keys, ret \in UserReturns :
       /\ last' = Call("getOwnPropertyDescriptor", "", key, NoValue, c, <<>>, NoInput, {},
                       getOwnPropertyDescriptor(c, SelfTable(registry, c), target[c],
                                                key, ret))
       /\ UNCHANGED <<OperatorCounter, registry, scopes, parents, tableObjects>>
       /\ UNCHANGED others

\* Reflect.ownKeys(instance)
OwnKeys ==
  /\ last = Idle
  /\ \E c \in DOMAIN target :
       /\ last' = Call("ownKeys", "", NoValue, NoValue, c, <<>>, NoInput, {},
                       ownKeys(target[c]))
       /\ UNCHANGED <<OperatorCounter, registry, scopes, parents, tableObjects>>
       /\ UNCHANGED others

(***************************************************************************)
(* The transform (src/src/transform/plugin.js): one traversal of a program *)
(* with the pass object {stack, shim}.  A program is the sequence of its   *)
(* braces and statements in source order, which is the order of the        *)
(* traversal: a block is entered at its opening brace and left at its       *)
(* closing one.                                                            *)
(***************************************************************************)
Token(k, op) == [k |-> k, op |-> op]
\* { and }, the statement withOperatorsFrom(...), a statement with a
\* withOperatorsFrom(...) call inside another expression, and the statement
\* a op b
OpenBrace == Token("open", "")
CloseBrace == Token("close", "")
WithStatement == Token("with", "")
NestedCall == Token("nested", "")
BinaryStatement(op) == Token("binary", op)

\* opening minus closing braces among the first j tokens
Depth(program, j) ==
  Cardinality({x \in 1..j : program[x].k = "open"})
    - Cardinality({x \in 1..j : program[x].k = "close"})

\* the block or program that holds token j directly (0 for the program)
Parent(program, j) ==
  LET enclosing == {i \in 1..(j - 1) :
                      /\ program[i].k = "open"
                      /\ \A x \in i..(j - 1) : Depth(program, x) >= Depth(program, i)}
  IN  IF enclosing = {} THEN 0 ELSE CHOOSE i \in enclosing : \A x \in enclosing : x <= i

\* the path of the block a closing brace closes
BlockOf(program, j) == Parent(program, j)

isWithOperatorsFrom(token) == token.k \in {"with", "nested"}

\* path.node.body.some(statement => an expression statement that is a call
\* of withOperatorsFrom)
BodyHasWith(program, i) ==
  \E j \in DOMAIN program : program[j].k = "with" /\ Parent(program, j) = i

peek(stack) == stack[Len(stack)]
inactive(stack) == Len(stack) = 0

\* a set of fixed operators spelled as the language spells them
fixedBinaryOperatorsOfLanguage == {"===", "!==", "in", "instanceof"}

fixedBinaryOperators == {"===", "!==", "in", "instanceOf"}

Untouched == [kind |-> "untouched", shim |-> 0, operators |-> 0, outer |-> 0, require |-> FALSE]
Rewritten(shimUid, operators) ==
  [kind |-> "rewritten", shim |-> shimUid, operators |-> operators, outer |-> 0,
   require |-> FALSE]
Prelude(shimUid, operators, outer, require) ==
  [kind |-> "prelude", shim |-> shimUid, operators |-> operators, outer |-> outer,
   require |-> require]

\* an exit that pops whatever block is left
exitPopping(p, path) ==
  IF ~inactive(p.stack)
  THEN LET rest == SubSeq(p.stack, 1, Len(p.stack) - 1)
       IN  [stack |-> rest, shim |-> IF inactive(rest) THEN 0 ELSE p.shim]
  ELSE p

\* visitBlockStatementLike.exit: the pass object after leaving path
exit(p, path) ==
  IF ~inactive(p.stack) /\ peek(p.stack).path = path
  THEN LET rest == SubSeq(p.stack, 1, Len(p.stack) - 1)
       IN  [stack |-> rest, shim |-> IF inactive(rest) THEN 0 ELSE p.shim]
  ELSE p

Visiting(k) ==
  /\ traversal.error = ""
  /\ traversal.pc \in DOMAIN traversal.program
  /\ traversal.program[traversal.pc].k \in k

Advance(out, uid) ==
  traversal' = [traversal EXCEPT !.pc = @ + 1, !.out = out, !.uid = uid]

\* visitBlockStatementLike.enter
EnterBlock ==
  /\ Visiting({"open"})
  /\ IF ~BodyHasWith(traversal.program, traversal.pc)
     THEN /\ Advance(traversal.out, traversal.uid)
          /\ UNCHANGED pass
     ELSE LET require == pass.shim = 0
              shimUid == IF require THEN traversal.uid + 1 ELSE pass.shim
              uid == IF require THEN traversal.uid + 1 ELSE traversal.uid
              operators == uid + 1
              outer == IF inactive(pass.stack) THEN 0 ELSE peek(pass.stack).operators
          IN  /\ pass' = [stack |-> Append(pass.stack,
                                           [operators |-> operators, path |-> traversal.pc]),
                          shim |-> shimUid]
              /\ Advance(Put(traversal.out, traversal.pc,
                             Prelude(shimUid, operators, outer, require)),
                         operators)
  /\ UNCHANGED shim

\* visitBlockStatementLike.exit
ExitBlock ==
  /\ Visiting({"close"})
  /\ pass' = exit(pass, BlockOf(traversal.program, traversal.pc))
  /\ Advance(traversal.out, traversal.uid)
  /\ UNCHANGED shim

\* the CallExpression visitor on a call of withOperatorsFrom
CallExpression ==
  /\ Visiting({"with", "nested"})
  /\ isWithOperatorsFrom(traversal.program[traversal.pc])
  /\ IF inactive(pass.stack)
     THEN traversal' = [traversal EXCEPT !.error = "NotStatement"]
     ELSE Advance(Put(traversal.out, traversal.pc,
                      Rewritten(pass.shim, peek(pass.stack).operators)),
                  traversal.uid)
  /\ UNCHANGED <<pass, shim>>

\* the BinaryExpression visitor
BinaryExpression ==
  /\ Visiting({"binary"})
  /\ IF inactive(pass.stack) \/ traversal.program[traversal.pc].op \in fixedBinaryOperators
     THEN Advance(Put(traversal.out, traversal.pc, Untouched), traversal.uid)
     ELSE Advance(Put(traversal.out, traversal.pc,
                      Rewritten(pass.shim, peek(pass.stack).operators)),
                  traversal.uid)
  /\ UNCHANGED <<pass, shim>>

\* post(): the traversal is over
Post ==
  /\ traversal.error = ""
  /\ ~traversal.done
  /\ traversal.pc = Len(traversal.program) + 1
  /\ traversal' = [traversal EXCEPT
                     !.done = TRUE,
                     !.error = IF ~inactive(pass.stack) \/ pass.shim # 0
                               THEN "internal error" ELSE ""]
  /\ UNCHANGED <<pass, shim>>

(***************************************************************************)
(* Spec: programs that register types and use them.                        *)
(***************************************************************************)
\* the argument lists of Operators the programs draw from
CrossRefs == (Classes \ {Class(1), Class(2)}) \cup {NoClass}

CrossInputs == {CrossInput(l, r, Fns({"*"})) : l \in CrossRefs, r \in CrossRefs}

RegInputs ==
  {RegInput(Fns({"+", "pos"}), NoOpen, <<>>),
   RegInput(Fns({"pos"}), Open({"+", "*"}), <<>>),
   RegInput([k \in {"+"} |-> "number"], NoOpen, <<>>)}
  \cup {RegInput(NoEntries, NoOpen, tables) :
          tables \in UNION {[1..n -> CrossInputs] : n \in 1..MaxTables}}

SpecBinaryOps == {"+", "*", "==", "!=", "<", ">"}
SpecUnaryOps == {"pos", "neg"}
SpecValues == {Num(2), Str(S_ab), Null, WNum(1, 2)}

Next ==
  \/ OperatorsCall(RegInputs)
  \/ DeclareOperators
  \/ WithOperatorsFrom
  \/ Binary(SpecBinaryOps, SpecValues)
  \/ Unary(SpecUnaryOps, SpecValues)
  \/ Resume

Spec == Init /\ [][Next]_vars

(***************************************************************************)
(* SpecBuiltin: programs that apply the operators to numbers, bigints,     *)
(* strings and their wrapper objects, in scopes with and without grants.   *)
(***************************************************************************)
BuiltinRegInputs == {RegInput(Fns({"+", "pos"}), NoOpen, <<>>)}
BuiltinBinaryOps == {"+", "==", "<"} \cup ArithmeticOperators
BuiltinValues ==
  {Num(1), Num(2), NaN, Big(1), Str(S_1), Str(S_ab),
   WNum(1, 1), WNum(1, 2), WBig(1, 1), WStr(S_1, 1)}

NextBuiltin ==
  \/ OperatorsCall(BuiltinRegInputs)
  \/ DeclareOperators
  \/ WithOperatorsFrom
  \/ Binary(BuiltinBinaryOps, BuiltinValues)
  \/ Unary(unaryOperators, BuiltinValues)
  \/ Resume

SpecBuiltin == Init /\ [][NextBuiltin]_vars

(***************************************************************************)
(* SpecRelational: programs that compare numbers, strings and instances of *)
(* types that define <, alone or with Number or an earlier type.           *)
(***************************************************************************)
RelationalOps == {"<", ">", "<=", ">="}
RelationalRefs == {Class(c) : c \in DOMAIN registry \ {1, 2}}
RelationalRegInputs ==
  {RegInput(Fns({"<"}), Open({"<"}), <<>>)}
  \cup {RegInput(NoEntries, NoOpen, <<CrossInput(l, NoClass, Fns({"<"}))>>) :
          l \in RelationalRefs}
  \cup {RegInput(NoEntries, NoOpen, <<CrossInput(NoClass, r, Fns({"<"}))>>) :
          r \in RelationalRefs}
RelationalValues == {Num(1), Num(2), NaN, Str(S_ab)}

NextRelational ==
  \/ OperatorsCall(RelationalRegInputs)
  \/ DeclareOperators
  \/ WithOperatorsFrom
  \/ Binary(RelationalOps, RelationalValues)
  \/ Resume

SpecRelational == Init /\ [][NextRelational]_vars

(***************************************************************************)
(* SpecRegistration: programs that register types with and without open   *)
(* lists, with keys Operators does not know, and with cross-type tables    *)
(* paired with Number, String and earlier types, use them with +, and      *)
(* change the objects they passed to Operators afterwards.                 *)
(***************************************************************************)
RegistrationRefs == {Class(c) : c \in DOMAIN registry \ {1}}
RegistrationKeys == {{"+"}, {"*"}}
\* two tables paired with Number on the same side, for different operators
TwoTables ==
  <<CrossInput(Class(0), NoClass, Fns({"+"})), CrossInput(Class(0), NoClass, Fns({"*"}))>>
RegistrationInputs ==
  {RegInput(Fns({"+", "add"}), NoOpen, <<>>),
   RegInput(NoEntries, Open({"+"}), <<>>)}
  \cup {RegInput(NoEntries, NoOpen, <<CrossInput(l, NoClass, Fns(keys))>>) :
          l \in RegistrationRefs, keys \in RegistrationKeys}
  \cup {RegInput(NoEntries, NoOpen, <<CrossInput(NoClass, r, Fns(keys))>>) :
          r \in RegistrationRefs, keys \in RegistrationKeys}
  \cup {RegInput(NoEntries, NoOpen, TwoTables)}

NextRegistration ==
  \/ OperatorsCall(RegistrationInputs)
  \/ DeclareOperators
  \/ WithOperatorsFrom
  \/ Binary({"+"}, {Num(2)})
  \/ MutateTable
  \/ Resume

SpecRegistration == Init /\ [][NextRegistration]_vars

(***************************************************************************)
(* SpecDecorators: programs that define classes with the decorators, with  *)
(* methods for the self table and for tables paired with Number.           *)
(***************************************************************************)
DecoratorOps == {"+", "*"}
DecoratorOptions == {NoOptions, Options(Class(0), NoClass), Options(NoClass, Class(0))}
DecoratorOpens == {NoOpen, Open({"+"})}

NextDecorators ==
  \/ Define(DecoratorOps, DecoratorOptions)
  \/ Overloaded(DecoratorOpens)
  \/ Resume

SpecDecorators == Init /\ [][NextDecorators]_vars

(***************************************************************************)
(* SpecIndex: programs that register classes with '[]' and '[]=', make an  *)
(* instance, give it a length or not, and read, write, test and list its   *)
(* keys.                                                                   *)
(***************************************************************************)
IndexInputs ==
  {RegInput(Fns({"[]", "[]="}), NoOpen, <<>>), RegInput(Fns({"[]"}), NoOpen, <<>>)}

\* "0", "1", "2", "3", "-1", "-0", "0.5", "01", "NaN", "Infinity", "length"
\* and the symbol of the operator set
IndexKeys ==
  {Str(<<48>>), Str(<<49>>), Str(<<50>>), Str(<<51>>), Str(<<45, 49>>), Str(<<45, 48>>),
   Str(<<48, 46, 53>>), Str(<<48, 49>>), Str(S_NaN), Str(S_Infinity), Str(S_length),
   OperatorSet}

\* the keys the programs assign to: "1", "3", "-1", "01", "length"
AssignedKeys ==
  {Str(<<49>>), Str(<<51>>), Str(<<45, 49>>), Str(<<48, 49>>), Str(S_length)}

\* 2 and "ab": a length, and a value that is no length
AssignedValues == {Num(2), Str(S_ab)}

NextIndex ==
  \/ OperatorsCall(IndexInputs)
  \/ New
  \/ Get(IndexKeys)
  \/ Set(AssignedKeys, AssignedValues)
  \/ Has(IndexKeys)
  \/ GetOwnPropertyDescriptor(IndexKeys)
  \/ OwnKeys
  \/ Resume

SpecIndex == Init /\ [][NextIndex]_vars

(***************************************************************************)
(* SpecTransform: the traversal of every program of up to MaxTokens braces *)
(* and statements.                                                         *)
(***************************************************************************)
TransformOps == {"+", "===", "!==", "in", "instanceof"}
Tokens ==
  {OpenBrace, CloseBrace, WithStatement, NestedCall}
    \cup {BinaryStatement(op) : op \in TransformOps}

\* the braces of the tokens balance and the tokens sit between the braces of
\* the program
Balanced(tokens) ==
  /\ Depth(tokens, Len(tokens)) = 0
  /\ \A j \in DOMAIN tokens : Depth(tokens, j) >= 0

Programs ==
  {<<OpenBrace>> \o tokens \o <<CloseBrace>> :
     tokens \in {t \in UNION {[1..n -> Tokens] : n \in 0..MaxTokens} : Balanced(t)}}

InitTransform ==
  /\ InitShim
  /\ pass = NewPass
  /\ \E program \in Programs : traversal = Start(program)

NextTransform ==
  \/ EnterBlock
  \/ ExitBlock
  \/ CallExpression
  \/ BinaryExpression
  \/ Post

SpecTransform == InitTransform /\ [][NextTransform]_vars

(***************************************************************************)
(* Properties                                                              *)
(***************************************************************************)
Dispatched == last.call \in {"binary", "unary"}
Operands == IF last.call = "binary" THEN {last.a, last.b} ELSE {last.a}
IsInstance(x) == x.t = "instance"
Trace == last.out.trace
Invocations == {k \in DOMAIN Trace : Trace[k].ev = "invoke"}
Lookups == {k \in DOMAIN Trace : Trace[k].ev = "lookup"}
Checks == {k \in DOMAIN Trace : Trace[k].ev = "check"}
\* an operand that reaches dispatchBinaryOperator as it was passed, whatever
\* the operator: an instance, a number or a Number wrapper
Generic(x) == x.t \in {"instance", "number", "Number"}
Ord(x) == SetAccess(x).ord

\* exactly one table function ran: fn, on (x, y), and its result is the outcome
InvokedOnce(fn, x, y) ==
  /\ last.out.kind = "return"
  /\ Cardinality(Invocations) = 1
  /\ \A k \in Invocations :
       /\ Trace[k].fn = fn
       /\ Trace[k].x = x
       /\ Trace[k].y = y
       /\ Trace[k].r = last.out.val

MissingGrant == \E x \in Operands : IsInstance(x) /\ x.n \notin last.before
TextualPlus == last.op = "+" /\ (last.a.t = "string" \/ last.b.t = "string")
NullOnLeft == last.op \in {"==", "!="} /\ last.a.t = "null"

\* C1 as stated: with an instance operand whose ordinal is not in scope no
\* table function runs and the call throws, the textual branch of + being
\* the only path that returns
C1_OnlyTextualReturns ==
  (Dispatched /\ MissingGrant) =>
    /\ Invocations = {}
    /\ ~TextualPlus => last.out.kind = "throw"

\* C1 (amended): with an instance operand whose ordinal is not in scope no
\* table is consulted and no table function runs; the call throws a
\* TypeError unless it is the textual branch of + or an == / != with null on
\* the left, which return a value without the check
C1_NoInvocationWithoutGrant ==
  (Dispatched /\ MissingGrant) =>
    /\ Invocations = {} /\ Lookups = {}
    /\ (~TextualPlus /\ ~NullOnLeft) =>
         last.out.kind = "throw" /\ last.out.err \in {ErrNotPermitted, ErrNative}
    /\ (TextualPlus \/ NullOnLeft) => last.out.kind = "return" /\ Trace = <<>>

C1_Witness ==
  /\ last.call = "binary"
  /\ last.a.t = "number"
  /\ IsInstance(last.b)
  /\ last.b.n \notin last.before
  /\ last.out.err = ErrNotPermitted

C3_HigherOrdinalTable ==
  ( /\ last.call = "binary"
    /\ last.op \in binaryOperators
    /\ Generic(last.a) /\ Generic(last.b)
    /\ IsInstance(last.a) \/ IsInstance(last.b)
    /\ Ord(last.a) # Ord(last.b)
    /\ Ord(last.a) \in last.before /\ Ord(last.b) \in last.before )
  => LET H == IF Ord(last.a) > Ord(last.b) THEN Ord(last.a) ELSE Ord(last.b)
         L == IF Ord(last.a) > Ord(last.b) THEN Ord(last.b) ELSE Ord(last.a)
         side == IF Ord(last.a) = H THEN "left" ELSE "right"
         tables == IF side = "left" THEN registry[H].LeftOperatorDefinitions
                   ELSE registry[H].RightOperatorDefinitions
     IN  /\ Cardinality(Lookups) = 1
         /\ \A k \in Lookups :
              Trace[k].owner = H /\ Trace[k].table = side /\ Trace[k].idx = L
         /\ IF L \in DOMAIN tables /\ last.op \in DOMAIN tables[L]
            THEN InvokedOnce(tables[L][last.op], last.a, last.b)
            ELSE last.out.err = ErrNoOverload /\ Invocations = {}

\* two user types, the higher on the left, its left table holding the entry
C3_Witness ==
  /\ last.call = "binary"
  /\ IsInstance(last.a) /\ IsInstance(last.b)
  /\ last.a.n > last.b.n
  /\ last.out.kind = "return"
  /\ \E k \in Invocations : Trace[k].table = "left" /\ Trace[k].owner = last.a.n

\* the values of the model that are of class T (ordinal c): numbers and
\* Number wrappers for Number, the instances for a class Operators returned
OfClass(x, c) == Generic(x) /\ Ord(x) = c

\* V (ordinal v) defines op with T (ordinal c) on the side given and nowhere
\* else: not in its self table, not in its table for T on the other side
OnlyOnSide(v, c, op, side) ==
  LET mine == IF side = "left" THEN registry[v].LeftOperatorDefinitions
              ELSE registry[v].RightOperatorDefinitions
      other == IF side = "left" THEN registry[v].RightOperatorDefinitions
               ELSE registry[v].LeftOperatorDefinitions
  IN  /\ c \in DOMAIN mine /\ op \in DOMAIN mine[c]
      /\ ~(c \in DOMAIN other /\ op \in DOMAIN other[c])
      /\ op \notin DOMAIN registry[v].SelfOperatorDefinition

\* the table Operators built from its one cross-type table went to the side
\* opposite to the property that names the paired class
C4_Registered ==
  ( /\ last.call = "Operators"
    /\ last.out.kind = "return"
    /\ Len(last.input.tables) = 1 )
  => LET t == last.input.tables[1]
         set == registry[OperatorCounter - 1]
         keys == DOMAIN t.entries \cap binaryOperators
     IN  IF t.left.k = "class"
         THEN /\ DOMAIN set.RightOperatorDefinitions = {t.left.ord}
              /\ DOMAIN set.RightOperatorDefinitions[t.left.ord] = keys
              /\ DOMAIN set.LeftOperatorDefinitions = {}
         ELSE /\ DOMAIN set.LeftOperatorDefinitions = {t.right.ord}
              /\ DOMAIN set.LeftOperatorDefinitions[t.right.ord] = keys
              /\ DOMAIN set.RightOperatorDefinitions = {}

C4_Dispatch ==
  ( /\ last.call = "binary"
    /\ last.op \in binaryOperators
    /\ Generic(last.a) /\ Generic(last.b) )
  => \A v \in DOMAIN registry \ DOMAIN InitialRegistry, c \in DOMAIN registry :
       (v \in last.before /\ c \in last.before /\ c < v) =>
         \* registered with left: T, so held in V's right table
         /\ OnlyOnSide(v, c, last.op, "right") =>
              /\ (OfClass(last.a, c) /\ OfClass(last.b, v)) =>
                   InvokedOnce(registry[v].RightOperatorDefinitions[c][last.op],
                               last.a, last.b)
              /\ (OfClass(last.a, v) /\ OfClass(last.b, c)) => last.out.kind = "throw"
              /\ (OfClass(last.a, v) /\ OfClass(last.b, v)) => last.out.kind = "throw"
         \* registered with right: T, so held in V's left table
         /\ OnlyOnSide(v, c, last.op, "left") =>
              /\ (OfClass(last.a, v) /\ OfClass(last.b, c)) =>
                   InvokedOnce(registry[v].LeftOperatorDefinitions[c][last.op],
                               last.a, last.b)
              /\ (OfClass(last.a, c) /\ OfClass(last.b, v)) => last.out.kind = "throw"
              /\ (OfClass(last.a, v) /\ OfClass(last.b, v)) => last.out.kind = "throw"

\* two values of a built-in class keep the result of the language
C4_BuiltinKept ==
  ( /\ last.call = "binary"
    /\ last.op \in binaryOperators
    /\ Generic(last.a) /\ Generic(last.b)
    /\ ~IsInstance(last.a) /\ ~IsInstance(last.b) )
  => LET native == NativeBinary(last.op, last.a, last.b)
     IN  /\ last.out.kind = native.kind
         /\ last.out.val = native.val

\* C4: a table registered with left: T enables the operator for T on the left
\* and the new type on the right only, one registered with right: T for the
\* new type on the left and T on the right only; with the new type granted
\* the reversed order and (new, new) throw, and (T, T) keeps the built-in
\* result
C4_CrossTableSides == C4_Registered /\ C4_Dispatch /\ C4_BuiltinKept

\* Number * V through the table registered with left: Number
C4_Witness ==
  /\ last.call = "binary"
  /\ last.op = "*"
  /\ last.a.t = "number"
  /\ IsInstance(last.b)
  /\ OnlyOnSide(last.b.n, 0, "*", "right")
  /\ last.out.kind = "return"

\* C5: operands of two different sets, op one of the overloadable binary
\* operators: the left ordinal is checked first, then the right one; a
\* missing ordinal throws OperatorNotPermitted before any table is looked up,
\* whether or not an overload exists; with both granted no permission
\* failure is reported and an existing entry is invoked
C5_BothOrdinalsChecked ==
  ( /\ last.call = "binary"
    /\ last.op \in binaryOperators
    /\ Generic(last.a) /\ Generic(last.b)
    /\ IsInstance(last.a) \/ IsInstance(last.b)
    /\ Ord(last.a) # Ord(last.b) )
  => LET sel == CrossTable(Ord(last.a), Ord(last.b))
         tables == Definitions(registry, sel)
     IN  /\ Trace # <<>> /\ Trace[1].ev = "check" /\ Trace[1].owner = Ord(last.a)
         /\ IF Ord(last.a) \notin last.before
            THEN /\ last.out.err = ErrNotPermitted
                 /\ Len(Trace) = 1
            ELSE IF Ord(last.b) \notin last.before
            THEN /\ last.out.err = ErrNotPermitted
                 /\ Len(Trace) = 2
                 /\ Trace[2].ev = "check" /\ Trace[2].owner = Ord(last.b)
            ELSE /\ last.out.err # ErrNotPermitted
                 /\ (sel.idx \in DOMAIN tables /\ last.op \in DOMAIN tables[sel.idx])
                      => last.out.kind = "return"

\* A op B refused while only A is granted although B defines the overload
C5_Witness ==
  /\ last.call = "binary"
  /\ IsInstance(last.a) /\ IsInstance(last.b)
  /\ last.a.n # last.b.n
  /\ last.a.n \in last.before
  /\ last.b.n \notin last.before
  /\ OnlyOnSide(last.b.n, last.a.n, last.op, "right")
  /\ last.out.err = ErrNotPermitted

\* C6: every scope holds the ordinals of Number, BigInt and String, and an
\* operator whose operands are all built-in values is never refused with
\* OperatorNotPermitted
C6_BuiltinsAlwaysGranted ==
  /\ \A i \in DOMAIN scopes : {0, 1, 2} \subseteq scopes[i]
  /\ (Dispatched /\ \A x \in Operands : ~IsInstance(x)) => last.out.err # ErrNotPermitted

\* a Number wrapper passed the permission check in a scope derived from
\* another scope
C6_Witness ==
  /\ last.call = "binary"
  /\ last.a.t = "Number" /\ last.b.t = "number"
  /\ parents[last.scope] # 0
  /\ \E k \in Checks : Trace[k].owner = 0
  /\ last.out.kind = "return"

\* the ordinals of the classes of a list that have operators
Granted(additions) ==
  {additions[k].ord : k \in {j \in DOMAIN additions : HasDefinition(additions[j])}}

DeclareStep == last.call = "idle" /\ last'.call = "declare"
WithStep == last.call = "idle" /\ last'.call = "with"

\* C7: _declareOperators(S) yields a new scope with exactly the ordinals of S
\* (of the default without S) and leaves every scope as it was; a
\* _withOperatorsFrom(child, G...) that returns leaves the child with exactly
\* what it held plus the ordinals of G and every other scope, its parent
\* included, as it was; no step removes an ordinal from a scope
C7_ChildScopeFrame ==
  [][ /\ DeclareStep =>
          /\ Len(scopes') = Len(scopes) + 1
          /\ scopes'[Len(scopes')] = IF last'.scope = 0 THEN defaultOperators
                                    ELSE scopes[last'.scope]
          /\ \A j \in DOMAIN scopes : scopes'[j] = scopes[j]
      /\ (WithStep /\ last'.out.kind = "return") =>
          /\ scopes'[last'.scope] = scopes[last'.scope] \cup Granted(last'.additions)
          /\ \A j \in DOMAIN scopes \ {last'.scope} : scopes'[j] = scopes[j]
      /\ \A j \in DOMAIN scopes : j \in DOMAIN scopes' /\ scopes[j] \subseteq scopes'[j]
    ]_vars

\* an operator on B refused in the enclosing scope after the inner scope,
\* derived from it, was granted B
C7_Witness ==
  /\ Dispatched
  /\ IsInstance(last.a)
  /\ last.out.err = ErrNotPermitted
  /\ \E j \in DOMAIN scopes :
       /\ parents[j] = last.scope
       /\ last.a.n \in scopes[j]
       /\ scopes[last.scope] \subseteq scopes[j]
       /\ scopes[last.scope] # defaultOperators

\* the outcome of an operator on instances follows the grants of the scope
\* as it is when the operator is evaluated
C8_Outcome ==
  /\ ( /\ last'.call \in {"binary", "unary"}
       /\ last'.op \in binaryOperators \cup unaryOperators
       /\ IsInstance(last'.a)
       /\ last'.call = "binary" => (IsInstance(last'.b) /\ last'.b.n = last'.a.n)
       /\ last'.op \in DOMAIN registry[last'.a.n].SelfOperatorDefinition )
     => IF last'.a.n \in scopes[last'.scope]
        THEN last'.out.kind = "return"
        ELSE last'.out.err = ErrNotPermitted
  /\ ( /\ last'.call = "binary"
       /\ last'.op \in binaryOperators
       /\ IsInstance(last'.a) /\ IsInstance(last'.b)
       /\ last'.a.n # last'.b.n
       /\ LET sel == CrossTable(last'.a.n, last'.b.n)
              tables == Definitions(registry, sel)
          IN  sel.idx \in DOMAIN tables /\ last'.op \in DOMAIN tables[sel.idx] )
     => IF {last'.a.n, last'.b.n} \subseteq scopes[last'.scope]
        THEN last'.out.kind = "return"
        ELSE last'.out.err = ErrNotPermitted

\* C8: a scope gains an ordinal only in a _withOperatorsFrom call on that
\* scope that names its class, a call that returns leaves every class it
\* names granted, and no step takes a grant away; an operator a type defines
\* throws OperatorNotPermitted while the scope lacks the type and returns
\* once the scope holds it, and an operator between two granted types returns
C8_GrantsAccumulate ==
  [][ /\ \A j \in DOMAIN scopes :
           /\ j \in DOMAIN scopes'
           /\ scopes[j] \subseteq scopes'[j]
           /\ \A c \in scopes'[j] \ scopes[j] :
                WithStep /\ last'.scope = j /\ c \in Granted(last'.additions)
      /\ (WithStep /\ last'.out.kind = "return") =>
           Granted(last'.additions) \subseteq scopes'[last'.scope]
      /\ (DeclareStep /\ last'.scope = 0) => scopes'[Len(scopes')] = defaultOperators
      /\ C8_Outcome
    ]_vars

\* A * B returns in a scope that was granted A and B by two separate calls
C8_Witness ==
  /\ last.call = "binary"
  /\ IsInstance(last.a) /\ IsInstance(last.b)
  /\ last.a.n # last.b.n
  /\ parents[last.scope] = 0
  /\ {last.a.n, last.b.n} \subseteq last.before
  /\ last.out.kind = "return"

\* C9 as stated: a _withOperatorsFrom call that throws leaves the scope with
\* exactly the ordinals it held before the call
C9_FailedCallGrantsNothing ==
  (last.call = "with" /\ last.out.kind = "throw") => scopes[last.scope] = last.before

\* a Number, BigInt or String primitive or a wrapper object of one
IsBuiltinValue(x) ==
  x.t \in {"number", "NaN", "bigint", "string", "Number", "BigInt", "String"}

\* the outcome of the call is the outcome native has: the same value, or a
\* TypeError of the language where the language throws one
SameAsNative(native) ==
  /\ last.out.kind = native.kind
  /\ last.out.val = native.val
  /\ last.out.err = native.err

\* C10: on Number, BigInt and String primitives and their wrappers _binary
\* with +, ==, < or a numeric operator and _unary with any unary operator
\* give the value, or the TypeError, of the operator of the language,
\* whatever the scope grants
C10_BuiltinsAsNative ==
  /\ ( /\ last.call = "binary"
       /\ last.op \in {"+", "==", "<"} \cup ArithmeticOperators
       /\ IsBuiltinValue(last.a) /\ IsBuiltinValue(last.b) )
     => SameAsNative(NativeBinary(last.op, last.a, last.b))
  /\ ( /\ last.call = "unary"
       /\ last.op \in unaryOperators
       /\ IsBuiltinValue(last.a) )
     => SameAsNative(NativeUnary(last.op, last.a))

\* a String wrapper plus a number, through String's table for Number, in a
\* scope that grants a user type
C10_Witness ==
  /\ last.call = "binary"
  /\ last.op = "+"
  /\ last.a.t = "String" /\ last.b.t = "number"
  /\ last.before # defaultOperators
  /\ \E k \in Invocations : Trace[k].table = "left" /\ Trace[k].owner = 2
  /\ last.out = [Return(Str(S_1 \o S_2), <<>>) EXCEPT !.trace = Trace]

\* C11 as stated: on numbers and strings, the pairs unordered under <
\* included, _binary with >, <= and >= returns the boolean the operator of
\* the language returns
C11_RelationalAsNative ==
  ( /\ last.call = "binary"
    /\ last.op \in {">", "<=", ">="}
    /\ last.a.t \in {"number", "NaN", "string"}
    /\ last.b.t \in {"number", "NaN", "string"} )
  => last.out = Return(Bool(NativeRelational(last.op, last.a, last.b)), <<>>)

\* C12 as stated: the counter advances once per successful registration and
\* not at all for one that fails validation, so the registered ordinals are
\* consecutive from 3: the counter is 3 plus the number of registered types
\* and every ordinal below it is registered
C12_CounterCountsRegistrations ==
  /\ OperatorCounter =
       FirstCounter + Cardinality(DOMAIN registry \ DOMAIN InitialRegistry)
  /\ DOMAIN registry = 0..(OperatorCounter - 1)

\* C13 as stated: a registration whose self table has a key that is not a
\* recognized operator name fails
C13_UnknownKeyRejected ==
  ( /\ last.call = "Operators"
    /\ \E k \in DOMAIN last.input.entries : k \notin allOperators )
  => last.out.kind = "throw"

\* an Operators call with one well-formed cross-type table: functions only,
\* exactly one of left: and right:, naming a class with operators
OneCrossTable ==
  /\ last.call = "Operators"
  /\ ~cleanTableThrows(last.input.entries, allOperators)
  /\ ~makeOpenSetThrows(last.input.open)
  /\ Len(last.input.tables) = 1
  /\ ~cleanTableThrows(last.input.tables[1].entries, binaryOperators)
  /\ (last.input.tables[1].left.k = "undefined") # (last.input.tables[1].right.k = "undefined")
  /\ HasDefinition(last.input.tables[1].left) \/ HasDefinition(last.input.tables[1].right)

\* the class the table is paired with, and the operators the table defines
PairedClass ==
  IF last.input.tables[1].left.k = "undefined" THEN last.input.tables[1].right
  ELSE last.input.tables[1].left
CrossKeys == DOMAIN last.input.tables[1].entries \cap binaryOperators

\* C14: a cross-type table paired with a type T whose open list is a Set (a
\* type Operators returned, Number or BigInt) that defines an operator
\* outside the list fails with OperatorNotOpen and registers nothing under
\* the ordinal it took; a type registered without open has an empty open
\* set; a table whose operators are all in T's list is accepted, stored, and
\* with both types granted its function is the one that runs
C14_OpenListEnforced ==
  /\ (OneCrossTable /\ registry[PairedClass.ord].OpenOperators.isSet) =>
       IF CrossKeys \subseteq registry[PairedClass.ord].OpenOperators.ops
       THEN /\ last.out.kind = "return"
            /\ (OperatorCounter - 1) \in DOMAIN registry
            /\ LET set == registry[OperatorCounter - 1]
                   mine == IF last.input.tables[1].left.k = "undefined"
                           THEN set.LeftOperatorDefinitions
                           ELSE set.RightOperatorDefinitions
               IN  /\ PairedClass.ord \in DOMAIN mine
                   /\ DOMAIN mine[PairedClass.ord] = CrossKeys
       ELSE /\ last.out.err = ErrNotOpen
            /\ (OperatorCounter - 1) \notin DOMAIN registry
  /\ \A c \in DOMAIN tableObjects :
       registry[c].OpenOperators =
         OpenSet(IF tableObjects[c].open.given THEN registry[c].OpenOperators.ops ELSE {})
  /\ ( /\ last.call = "binary"
       /\ last.op \in binaryOperators
       /\ IsInstance(last.a) /\ IsInstance(last.b)
       /\ last.a.n # last.b.n
       /\ {last.a.n, last.b.n} \subseteq last.before
       /\ LET lower == IF last.a.n < last.b.n THEN last.a.n ELSE last.b.n
          IN  last.op \in registry[lower].OpenOperators.ops )
     => LET sel == CrossTable(last.a.n, last.b.n)
            tables == Definitions(registry, sel)
        IN  (sel.idx \in DOMAIN tables /\ last.op \in DOMAIN tables[sel.idx])
              => InvokedOnce(tables[sel.idx][last.op], last.a, last.b)

\* A + B runs the function B registered with left: A, + being in A's open list
C14_Witness ==
  /\ last.call = "binary"
  /\ last.op = "+"
  /\ IsInstance(last.a) /\ IsInstance(last.b)
  /\ last.a.n < last.b.n
  /\ "+" \in registry[last.a.n].OpenOperators.ops
  /\ last.out.kind = "return"
  /\ \E k \in Invocations : Trace[k].table = "right" /\ Trace[k].owner = last.b.n

\* C15 as stated: a cross-type table paired with String, on either side,
\* that defines operators among +, == and < is accepted, and one that
\* defines another operator is rejected
C15_StringPairing ==
  (OneCrossTable /\ PairedClass = Class(2) /\ CrossKeys # {}) =>
    IF CrossKeys \subseteq StringSet.OpenOperators.ops
    THEN last.out.kind = "return"
    ELSE last.out.kind = "throw"

\* the indices at which the set with ordinal c holds a cross-type table
PopulatedIndices(c) ==
  DOMAIN registry[c].LeftOperatorDefinitions
    \cup DOMAIN registry[c].RightOperatorDefinitions

\* C16: in every operator set, built-in or registered, every populated index
\* of the left and right tables is an ordinal strictly below the set's own
\* and the ordinal of a registered set, so a cross-type entry between two
\* types is held by the later-registered one only
C16_TablesIndexEarlierTypes ==
  \A c \in DOMAIN registry :
    /\ registry[c].OperatorCounter = c
    /\ \A i \in PopulatedIndices(c) : i < c /\ i \in DOMAIN registry

\* a registered type holding a table for another registered type
C16_Witness ==
  /\ last.call = "Operators"
  /\ last.out.kind = "return"
  /\ \E c \in DOMAIN registry :
       \E i \in PopulatedIndices(c) : i \notin DOMAIN InitialRegistry

\* the function dispatchBinaryOperator selects for op with a left operand of
\* the set ca and a right operand of the set cb, NoFunction when it finds none
NoFunction == [kind |-> "none", arg |-> 0]
Selected(op, ca, cb) ==
  IF ca = cb
  THEN IF op \in DOMAIN SelfTable(registry, ca) THEN SelfTable(registry, ca)[op]
       ELSE NoFunction
  ELSE LET sel == CrossTable(ca, cb)
           tables == Definitions(registry, sel)
       IN  IF sel.idx \in DOMAIN tables /\ op \in DOMAIN tables[sel.idx]
           THEN tables[sel.idx][op]
           ELSE NoFunction

\* C17: no step, a change by the program of the objects it passed to
\* Operators included, changes the operator set of a registered type
\* (ordinal, self table, left and right tables, open list) or the function
\* dispatch selects for an operator and two registered types (a selection
\* reads the operator sets and, at most, the program's objects, so the steps
\* that change neither need no comparison)
C17_RegisteredSetsFrozen ==
  [][ /\ \A c \in DOMAIN registry : c \in DOMAIN registry' /\ registry'[c] = registry[c]
      /\ \/ UNCHANGED <<registry, tableObjects>>
         \/ \A op \in binaryOperators, ca \in DOMAIN registry, cb \in DOMAIN registry :
              Selected(op, ca, cb)' = Selected(op, ca, cb)
    ]_vars

\* V + V still runs the registered function after the program emptied the
\* table it had passed to Operators
C17_Witness ==
  /\ last.call = "binary"
  /\ IsInstance(last.a) /\ IsInstance(last.b)
  /\ last.a.n = last.b.n
  /\ tableObjects[last.a.n].entries = NoEntries
  /\ last.out.kind = "return"
  /\ \E k \in Invocations : Trace[k].fn = UserFn(0)

\* C18 as stated: an == or != that reaches generic dispatch with both
\* operand types granted and no table or no == entry for the pair returns
\* false (true for !=) instead of throwing
C18_MissingEqualityIsFalse ==
  ( /\ last.call = "binary"
    /\ last.op \in {"==", "!="}
    /\ Generic(last.a) /\ Generic(last.b)
    /\ IsInstance(last.a) \/ IsInstance(last.b)
    /\ {Ord(last.a), Ord(last.b)} \subseteq last.before
    /\ Selected("==", Ord(last.a), Ord(last.b)) = NoFunction )
  => /\ last.out.kind = "return"
     /\ last.a # last.b => last.out.val = Bool(last.op = "!=")

IsNullish(x) == x.t \in {"null", "undefined"}

\* C19 as stated: == with null or undefined on either side returns true
\* exactly when the other operand is null or undefined, throws for no
\* operand and invokes no table function
C19_NullishEquality ==
  ( /\ last.call = "binary"
    /\ last.op = "=="
    /\ IsNullish(last.a) \/ IsNullish(last.b) )
  => /\ last.out.kind = "return"
     /\ last.out.val = Bool(IsNullish(last.a) /\ IsNullish(last.b))
     /\ Invocations = {}

\* x rel y is lt(l, r), negated or not: one lookup in the table selected
\* for (l, r), one invocation of its < entry on (l, r), and the result
IsOneLess(l, r, negated) ==
  LET lt == Selected("<", Ord(l), Ord(r))
      sel == CrossTable(Ord(l), Ord(r))
  IN  lt # NoFunction =>
        /\ last.out.kind = "return"
        /\ Cardinality(Lookups) = 1
        /\ \A k \in Lookups :
             /\ Trace[k].op = "<"
             /\ IF Ord(l) = Ord(r)
                THEN Trace[k].owner = Ord(l) /\ Trace[k].table = "self"
                ELSE /\ Trace[k].owner = sel.owner
                     /\ Trace[k].table = sel.table
                     /\ Trace[k].idx = sel.idx
        /\ Cardinality(Invocations) = 1
        /\ \A k \in Invocations :
             /\ Trace[k].fn = lt /\ Trace[k].op = "<"
             /\ Trace[k].x = l /\ Trace[k].y = r
             /\ last.out.val = IF negated THEN Bool(~ToBoolean(Trace[k].r))
                               ELSE Trace[k].r

\* C20: with an operand of a registered type and both operand types granted,
\* a < b is lt(a, b), a > b is lt(b, a), a <= b is not lt(b, a) and a >= b is
\* not lt(a, b), lt being the < entry of the table selected for the operands
\* in the order lt receives them; lt runs exactly once
C20_OneLessThanDispatch ==
  ( /\ last.call = "binary"
    /\ last.op \in {"<", ">", "<=", ">="}
    /\ SetAccess(last.a).st = "set" /\ SetAccess(last.b).st = "set"
    /\ IsInstance(last.a) \/ IsInstance(last.b)
    /\ {Ord(last.a), Ord(last.b)} \subseteq last.before )
  => CASE last.op = "<" -> IsOneLess(last.a, last.b, FALSE)
       [] last.op = ">" -> IsOneLess(last.b, last.a, FALSE)
       [] last.op = "<=" -> IsOneLess(last.b, last.a, TRUE)
       [] OTHER -> IsOneLess(last.a, last.b, TRUE)

\* V <= 1 computed as not lt(1, V) through V's table for Number on the left
C20_Witness ==
  /\ last.call = "binary"
  /\ last.op = "<="
  /\ IsInstance(last.a) /\ last.b.t = "number"
  /\ last.out.kind = "return"
  /\ \E k \in Invocations :
       /\ Trace[k].table = "right"
       /\ Trace[k].x = last.b /\ Trace[k].y = last.a
       /\ last.out.val = Bool(~ToBoolean(Trace[k].r))

\* the string the language's + makes of two operands one of which is a string
Concatenation(x, y) ==
  Str(JSToString(JSToPrimitive(x)) \o JSToString(JSToPrimitive(y)))

OnlyLeftOfNumber(v) ==
  /\ IsInstance(v)
  /\ v.n \in last.before
  /\ OnlyOnSide(v.n, 0, "*", "left")

\* C22 as stated: with V's only * entry in its left table for ordinal 0 and
\* V granted, number * v returns that entry's result
C22_NumberTimesV ==
  ( /\ last.call = "binary"
    /\ last.op = "*"
    /\ last.a.t = "number"
    /\ OnlyLeftOfNumber(last.b) )
  => InvokedOnce(registry[last.b.n].LeftOperatorDefinitions[0]["*"], last.a, last.b)

\* C22 (amended): with V's only * entry in its left table for ordinal 0 and
\* V granted, v * number runs that entry on (v, number) and returns its
\* result, and number * v throws NoOverloadDefined without running it
C22_VTimesNumber ==
  /\ ( /\ last.call = "binary"
       /\ last.op = "*"
       /\ last.b.t = "number"
       /\ OnlyLeftOfNumber(last.a) )
     => InvokedOnce(registry[last.a.n].LeftOperatorDefinitions[0]["*"], last.a, last.b)
  /\ ( /\ last.call = "binary"
       /\ last.op = "*"
       /\ last.a.t = "number"
       /\ OnlyLeftOfNumber(last.b) )
     => last.out.err = ErrNoOverload /\ Invocations = {}

C22_Witness ==
  /\ last.call = "binary"
  /\ last.op = "*"
  /\ last.b.t = "number"
  /\ OnlyLeftOfNumber(last.a)
  /\ last.out.kind = "return"

\* neither a primitive that carries no operator set nor an object
IsPlainPrimitive(x) == x.t \in {"number", "NaN", "bigint", "string", "boolean", "null", "undefined"}

\* C26 as stated: a + of two primitives returns what the + of the language
\* returns, with no permission failure and no error of the engine
C26_PrimitivesAsNative ==
  ( /\ last.call = "binary"
    /\ last.op = "+"
    /\ IsPlainPrimitive(last.a) /\ IsPlainPrimitive(last.b) )
  => /\ last.out.kind = NativeBinary("+", last.a, last.b).kind
     /\ last.out.val = NativeBinary("+", last.a, last.b).val

\* C29 as stated: after a successful registration every function supplied in
\* one of its cross-type tables is the one dispatch selects for its operator
\* and the pair (paired type, new type) on the side the table names
C29_EveryTableReachable ==
  (last.call = "Operators" /\ last.out.kind = "return") =>
    \A i \in DOMAIN last.input.tables :
      \A key \in DOMAIN last.input.tables[i].entries \cap binaryOperators :
        LET t == last.input.tables[i]
            new == OperatorCounter - 1
        IN  IF t.left.k = "undefined"
            THEN Selected(key, new, t.right.ord) = UserFn(i)
            ELSE Selected(key, t.left.ord, new) = UserFn(i)

\* C25 as stated: when the finisher of Operators.overloaded registers a
\* class, a method defined without options is in the self table of the new
\* set, and a method defined with {left: C} or {right: C} is in the table
\* paired with C on that side, and in the self table only if the class also
\* defines that operator without options
C25_DecoratorAsFunctional ==
  [][ (last'.call = "overloaded" /\ last'.out.kind = "return") =>
        \A k \in DOMAIN decoratorOperators :
          LET d == decoratorOperators[k]
              set == registry'[OperatorCounter]
              paired == IF d.options.left.k = "undefined" THEN set.LeftOperatorDefinitions
                        ELSE set.RightOperatorDefinitions
              c == IF d.options.left.k = "undefined" THEN d.options.right.ord
                   ELSE d.options.left.ord
          IN  IF ~d.options.given
              THEN d.operator \in DOMAIN set.SelfOperatorDefinition
              ELSE /\ c \in DOMAIN paired
                   /\ d.operator \in DOMAIN paired[c]
                   /\ d.operator \in DOMAIN set.SelfOperatorDefinition =>
                        \E j \in DOMAIN decoratorOperators :
                          /\ decoratorOperators[j].operator = d.operator
                          /\ ~decoratorOperators[j].options.given
    ]_vars

\* a read, write, test or descriptor request in progress on an instance whose
\* class defines op: its key, the storage of the instance, its length
OnIndexed(call, op) == last.call = call /\ op \in DOMAIN SelfTable(registry, last.scope)
Storage == target[last.scope]
LengthIsNumber == NumberOfLength(Storage).t = "number"
\* the integer a key spells in canonical decimal form, -1 when it spells none
IndexOf(k) ==
  IF k.t = "string" /\ k.s # <<>> /\ IsDigits(k.s) /\ (Len(k.s) = 1 \/ k.s[1] # 48)
  THEN DigitsValue(k.s) ELSE 0 - 1
\* the entry for op ran once, on index n and value v
IndexInvokedOnce(op, n, v) ==
  /\ Cardinality(Invocations) = 1
  /\ \A i \in Invocations :
       /\ Trace[i].op = op
       /\ Trace[i].fn = SelfTable(registry, last.scope)[op]
       /\ Trace[i].x = Num(n)
       /\ Trace[i].y = v

C23_WitnessInfinity ==
  /\ OnIndexed("get", "[]")
  /\ last.a = Str(S_Infinity)
  /\ last.out = Return(Undefined, <<>>)

\* C24 as stated: an assignment with an integer key at or past length does
\* not run the '[]=' entry and stores the value on the instance
C24_PastLengthStored ==
  ( /\ OnIndexed("set", "[]=")
    /\ LengthIsNumber
    /\ IndexOf(last.a) >= NumberOfLength(Storage).n )
  => /\ Invocations = {}
     /\ ReflectGet(Storage, last.a) = last.b

\* C24 (amended): an assignment with the canonical string of a non-negative
\* integer runs the '[]=' entry once on (index, value), whatever the length,
\* and stores nothing on the instance; "-1" is refused without running it;
\* a key that is no canonical number is stored on the instance
C24_EveryIndexRouted ==
  OnIndexed("set", "[]=") =>
    LET k == last.a
    IN  IF IndexOf(k) >= 0
        THEN /\ last.out.val = Bool(TRUE)
             /\ IndexInvokedOnce("[]=", IndexOf(k), last.b)
             /\ k \notin DOMAIN Storage
        ELSE IF k = Str(<<45, 49>>)
        THEN /\ last.out = Return(Bool(FALSE), <<>>)
             /\ k \notin DOMAIN Storage
        ELSE /\ last.out = Return(Bool(TRUE), <<>>)
             /\ ReflectGet(Storage, k) = last.b

\* instance["3"] = v with length 2
C24_Witness ==
  /\ OnIndexed("set", "[]=")
  /\ last.a = Str(<<51>>)
  /\ NumberOfLength(Storage) = Num(2)
  /\ Invocations # {}

\* C30 as stated: a read runs the '[]' entry only for a key that is in the
\* instance, a descriptor is reported for a numeric key exactly when the key
\* is in the instance, and the keys listed before those of the target are
\* the numeric keys that are in the instance
C30_TrapsAgree ==
  /\ (OnIndexed("get", "[]") /\ Invocations # {}) =>
       has(Storage, last.a).val = Bool(TRUE)
  /\ ( /\ OnIndexed("getOwnPropertyDescriptor", "[]")
       /\ CanonicalNumericIndexString(last.a) # Undefined )
     => (last.out.val.t = "descriptor") = (has(Storage, last.a).val = Bool(TRUE))
  /\ OnIndexed("ownKeys", "[]") =>
       \A k \in IndexKeys :
         CanonicalNumericIndexString(k) # Undefined =>
           ((\E i \in DOMAIN last.out.val.index : last.out.val.index[i] = k)
              = (has(Storage, k).val = Bool(TRUE)))

\* the blocks entered and not yet left whose body holds a withOperatorsFrom
\* statement directly
Enclosing(q) ==
  {i \in 1..(q - 1) :
     /\ traversal.program[i].k = "open"
     /\ \A x \in i..(q - 1) : Depth(traversal.program, x) >= Depth(traversal.program, i)}
ActiveAround(q) == {i \in Enclosing(q) : BodyHasWith(traversal.program, i)}
Innermost(blocks) == CHOOSE i \in blocks : \A x \in blocks : x <= i

\* C27: at every point of the traversal the stack holds exactly the enclosing
\* blocks with a withOperatorsFrom statement directly in their body, innermost
\* last, each with the variable its prelude declares; every rewritten
\* operator and withOperatorsFrom call carries the shim identifier and the
\* variable of the innermost such block around it; every prelude initialises
\* its variable from the next such block outwards, or from nothing at the
\* root, and declares a variable no other prelude declares; the shim
\* identifier is defined exactly while the stack is non-empty; and post()
\* finds the stack empty
C27_StackTracksActiveBlocks ==
  LET stack == pass.stack
      out == traversal.out
      active == ActiveAround(traversal.pc)
  IN  /\ Len(stack) = Cardinality(active)
      /\ \A k \in DOMAIN stack :
           /\ stack[k].path \in active
           /\ stack[k].operators = out[stack[k].path].operators
           /\ \A j \in DOMAIN stack : j < k => stack[j].path < stack[k].path
      /\ \A q \in DOMAIN out :
           /\ out[q].kind = "rewritten" =>
                /\ ActiveAround(q) # {}
                /\ out[q].operators = out[Innermost(ActiveAround(q))].operators
                /\ out[q].shim = out[Innermost(ActiveAround(q))].shim
                /\ out[q].shim # 0
           /\ out[q].kind = "prelude" =>
                /\ out[q].outer = IF ActiveAround(q) = {} THEN 0
                                  ELSE out[Innermost(ActiveAround(q))].operators
                /\ out[q].require = (ActiveAround(q) = {})
                /\ \A r \in DOMAIN out :
                     (r # q /\ out[r].kind = "prelude") =>
                       out[r].operators # out[q].operators
      /\ (pass.shim # 0) = (stack # <<>>)
      /\ traversal.done => (stack = <<>> /\ traversal.error = "")

\* inside a block with withOperatorsFrom nested in another one, after a
\* statement of the inner block was rewritten with the inner variable
C27_Witness ==
  /\ Len(pass.stack) = 2
  /\ \E q \in DOMAIN traversal.out :
       /\ q > peek(pass.stack).path
       /\ traversal.out[q].kind = "rewritten"
       /\ traversal.out[q].operators = peek(pass.stack).operators
       /\ traversal.out[peek(pass.stack).path].outer = pass.stack[1].operators

\* C28 as stated: a === b, a !== b, a in b and a instanceof b are left
\* untouched, whether or not a block with withOperatorsFrom is active
C28_FixedOperatorsUntouched ==
  \A q \in DOMAIN traversal.out :
    ( /\ traversal.program[q].k = "binary"
      /\ traversal.program[q].op \in {"===", "!==", "in", "instanceof"} )
    => traversal.out[q] = Untouched

====
